---- MODULE Spec2Model ----
(***************************************************************************)
(* Customer Language Mining System: the analysis-orchestration and         *)
(* report-assembly pipeline (main.py, claude_analyzer.py, message_map.py). *)
(*                                                                         *)
(* Python values are tagged records; a Python str is a sequence of atoms   *)
(* (an atom stands for a run of characters), a dict is a function from     *)
(* key strings to values.  JSON text is a sequence of atoms: the six       *)
(* punctuation atoms, the quote atom, the backslash atom, number atoms and *)
(* word atoms.                                                             *)
(***************************************************************************)
EXTENDS Integers, Sequences, FiniteSets, TLC

(***************************************************************************)
(* Python values                                                           *)
(***************************************************************************)
PyStr(s) == [t |-> "str", s |-> s]
PyInt(n) == [t |-> "int", n |-> n]
PyList(a) == [t |-> "list", a |-> a]
\* a dict: its items o, and its keys ks in insertion order
PyDict(ks, o) == [t |-> "dict", ks |-> ks, o |-> o]
PyBool(b) == [t |-> "bool", b |-> b]
None == [t |-> "none"]
\* a float, by the token json writes for it
PyFloat(tok) == [t |-> "float", tok |-> tok]

\* the string made of one atom, and the key of a dict entry made of one atom
Str1(a) == PyStr(<<a>>)
K(a) == <<a>>

EmptyDict == PyDict(<<>>, <<>>)
EmptyList == PyList(<<>>)

\* {key: value}, and d1 | d2 on the functions behind two dicts
\* d[k] = v: a new key goes last, a key already there keeps its place
DictSet(d, k, v) ==
    PyDict(IF k \in DOMAIN d.o THEN d.ks ELSE Append(d.ks, k),
           [x \in DOMAIN d.o \cup {k} |-> IF x = k THEN v ELSE d.o[x]])

Dict1(k, v) == DictSet(EmptyDict, K(k), v)
Dict2(k1, v1, k2, v2) == DictSet(Dict1(k1, v1), K(k2), v2)

\* bool(v): empty containers, the empty string and 0 are false
Truthy(v) ==
    CASE v.t = "str" -> Len(v.s) > 0
      [] v.t = "int" -> v.n # 0
      [] v.t = "float" -> TRUE
      [] v.t = "list" -> Len(v.a) > 0
      [] v.t = "dict" -> DOMAIN v.o # {}
      [] v.t = "bool" -> v.b
      [] OTHER -> FALSE

(***************************************************************************)
(* json.loads / json.dumps over atom sequences                             *)
(***************************************************************************)
Q == "\""
BS == "\\"

\* number atoms and the integers they denote
NumTokVal ==
    ("-1" :> -1) @@ ("0" :> 0) @@ ("1" :> 1) @@ ("2" :> 2) @@ ("3" :> 3) @@ ("7" :> 7)
        @@ ("49" :> 49) @@ ("50" :> 50) @@ ("51" :> 51)
NumTok == DOMAIN NumTokVal
NumTokOf(n) == CHOOSE tk \in NumTok : NumTokVal[tk] = n

\* number atoms with a fraction, and twice the numbers they denote
FloatTokTwice == ("0.5" :> 1) @@ ("7.5" :> 15)
FloatTok == DOMAIN FloatTokTwice

\* whitespace between tokens: a space, an indentation step, a line break
Ws == {" ", "  ", "\n"}

\* the first position from i on that holds no whitespace
SkipWs(s, i) ==
    IF i > Len(s) \/ s[i] \notin Ws THEN i
    ELSE CHOOSE j \in (i + 1)..(Len(s) + 1) :
             /\ \A m \in i..(j - 1) : s[m] \in Ws
             /\ j = Len(s) + 1 \/ s[j] \notin Ws

ParseFail == [ok |-> FALSE]
ParseOk(v, nxt) == [ok |-> TRUE, val |-> v, nxt |-> nxt]

RECURSIVE ScanString(_, _, _)
\* s[i..] is the inside of a string literal; acc is the content read so far
ScanString(s, i, acc) ==
    IF i > Len(s) THEN ParseFail
    ELSE IF s[i] = Q THEN ParseOk(PyStr(acc), i + 1)
    ELSE IF s[i] = BS
         THEN IF i + 1 <= Len(s) /\ s[i + 1] \in {Q, BS}
              THEN ScanString(s, i + 2, Append(acc, s[i + 1]))
              ELSE ParseFail
    ELSE ScanString(s, i + 1, Append(acc, s[i]))

RECURSIVE ParseValue(_, _)
RECURSIVE ParseElements(_, _, _)
RECURSIVE ParseMembers(_, _, _)

ParseValue(s, i0) ==
    LET i == SkipWs(s, i0) IN
    IF i > Len(s) THEN ParseFail
    ELSE IF s[i] = Q THEN ScanString(s, i + 1, <<>>)
    ELSE IF s[i] \in NumTok THEN ParseOk(PyInt(NumTokVal[s[i]]), i + 1)
    ELSE IF s[i] \in FloatTok THEN ParseOk(PyFloat(s[i]), i + 1)
    ELSE IF s[i] = "true" THEN ParseOk(PyBool(TRUE), i + 1)
    ELSE IF s[i] = "false" THEN ParseOk(PyBool(FALSE), i + 1)
    ELSE IF s[i] = "null" THEN ParseOk(None, i + 1)
    ELSE IF s[i] = "["
         THEN LET j == SkipWs(s, i + 1) IN
              IF j <= Len(s) /\ s[j] = "]"
              THEN ParseOk(EmptyList, j + 1)
              ELSE ParseElements(s, j, <<>>)
    ELSE IF s[i] = "{"
         THEN LET j == SkipWs(s, i + 1) IN
              IF j <= Len(s) /\ s[j] = "}"
              THEN ParseOk(EmptyDict, j + 1)
              ELSE ParseMembers(s, j, EmptyDict)
    ELSE ParseFail

\* the elements of an array after "[" or ","
ParseElements(s, i, acc) ==
    LET v == ParseValue(s, i) IN
    IF ~v.ok THEN ParseFail
    ELSE LET e == SkipWs(s, v.nxt) IN
         IF e > Len(s) THEN ParseFail
         ELSE IF s[e] = "," THEN ParseElements(s, e + 1, Append(acc, v.val))
         ELSE IF s[e] = "]" THEN ParseOk(PyList(Append(acc, v.val)), e + 1)
         ELSE ParseFail

\* the members of an object after "{" or ","; a repeated key keeps the last value
ParseMembers(s, i0, acc) ==
    LET i == SkipWs(s, i0) IN
    IF i > Len(s) \/ s[i] # Q THEN ParseFail
    ELSE LET k == ScanString(s, i + 1, <<>>) IN
         IF ~k.ok THEN ParseFail
         ELSE LET c == SkipWs(s, k.nxt) IN
              IF c > Len(s) \/ s[c] # ":" THEN ParseFail
              ELSE LET v == ParseValue(s, c + 1) IN
                   IF ~v.ok THEN ParseFail
                   ELSE LET e == SkipWs(s, v.nxt)
                            o == DictSet(acc, k.val.s, v.val) IN
                        IF e > Len(s) THEN ParseFail
                        ELSE IF s[e] = "," THEN ParseMembers(s, e + 1, o)
                        ELSE IF s[e] = "}" THEN ParseOk(o, e + 1)
                        ELSE ParseFail

\* json.loads: the whole text must be one value; ok = FALSE is JSONDecodeError
JsonLoads(text) ==
    LET r == ParseValue(text, 1) IN
    IF r.ok /\ SkipWs(text, r.nxt) = Len(text) + 1 THEN [ok |-> TRUE, val |-> r.val] ELSE ParseFail

RECURSIVE EscapeStr(_)
EscapeStr(s) ==
    IF s = <<>> THEN <<>>
    ELSE (IF Head(s) \in {Q, BS} THEN <<BS, Head(s)>> ELSE <<Head(s)>>) \o EscapeStr(Tail(s))

RECURSIVE JsonDumps(_)
RECURSIVE DumpElements(_)
RECURSIVE DumpMembers(_, _)

DumpElements(a) ==
    IF a = <<>> THEN <<>>
    ELSE IF Len(a) = 1 THEN JsonDumps(a[1])
    ELSE JsonDumps(a[1]) \o <<",">> \o DumpElements(Tail(a))

\* the members of an object, in the order of its keys
DumpMembers(o, keys) ==
    IF keys = <<>> THEN <<>>
    ELSE LET k == Head(keys)
             m == <<Q>> \o EscapeStr(k) \o <<Q, ":">> \o JsonDumps(o[k]) IN
         IF Len(keys) = 1 THEN m ELSE m \o <<",">> \o DumpMembers(o, Tail(keys))

JsonDumps(v) ==
    CASE v.t = "str" -> <<Q>> \o EscapeStr(v.s) \o <<Q>>
      [] v.t = "int" -> <<NumTokOf(v.n)>>
      [] v.t = "float" -> <<v.tok>>
      [] v.t = "list" -> <<"[">> \o DumpElements(v.a) \o <<"]">>
      [] v.t = "dict" -> <<"{">> \o DumpMembers(v.o, v.ks) \o <<"}">>
      [] v.t = "bool" -> IF v.b THEN <<"true">> ELSE <<"false">>
      [] v.t = "none" -> <<"null">>

\* a line break and the indentation of a nesting level
NewLine(level) == <<"\n">> \o [i \in 1..level |-> "  "]

RECURSIVE JsonDumpIndent(_, _)
RECURSIVE DumpElementsIndent(_, _)
RECURSIVE DumpMembersIndent(_, _, _)

DumpElementsIndent(a, level) ==
    IF a = <<>> THEN <<>>
    ELSE NewLine(level) \o JsonDumpIndent(a[1], level)
             \o (IF Len(a) = 1 THEN <<>> ELSE <<",">> \o DumpElementsIndent(Tail(a), level))

DumpMembersIndent(o, keys, level) ==
    IF keys = <<>> THEN <<>>
    ELSE LET k == Head(keys) IN
         NewLine(level) \o <<Q>> \o EscapeStr(k) \o <<Q, ":", " ">> \o JsonDumpIndent(o[k], level)
             \o (IF Len(keys) = 1 THEN <<>> ELSE <<",">> \o DumpMembersIndent(o, Tail(keys), level))

\* json.dump(v, f, indent=2, ensure_ascii=False): each item on a line of its own
JsonDumpIndent(v, level) ==
    CASE v.t = "list" /\ v.a # <<>> ->
             <<"[">> \o DumpElementsIndent(v.a, level + 1) \o NewLine(level) \o <<"]">>
      [] v.t = "dict" /\ v.ks # <<>> ->
             <<"{">> \o DumpMembersIndent(v.o, v.ks, level + 1) \o NewLine(level) \o <<"}">>
      [] OTHER -> JsonDumps(v)

(***************************************************************************)
(* Python helpers: slices, dict access, iteration, exceptions              *)
(***************************************************************************)
Min(a, b) == IF a < b THEN a ELSE b

\* seq[:stop] for stop >= 0
PySlice(seq, stop) == SubSeq(seq, 1, Min(Len(seq), stop))

\* the value a function returned, or the exception that left it
Ret(v) == [raised |-> FALSE, val |-> v]
Raise(e) == [raised |-> TRUE, exc |-> e]

\* key in d, for a dict d
HasKey(d, k) == K(k) \in DOMAIN d.o

\* d.get(k, default): AttributeError when d is a list, a str or an int
PyGet(d, k, default) ==
    IF d.t # "dict" THEN Raise(<<"AttributeError">>)
    ELSE IF HasKey(d, k) THEN Ret(d.o[K(k)]) ELSE Ret(default)

\* v[k] for a string key k
PyItem(v, k) ==
    IF v.t = "dict"
    THEN IF HasKey(v, k) THEN Ret(v.o[K(k)]) ELSE Raise(<<"KeyError">>)
    ELSE Raise(<<"TypeError">>)

\* the items a for loop over v visits
PyIter(v) ==
    CASE v.t = "list" -> Ret(v.a)
      [] v.t = "dict" ->
           Ret([i \in 1..Len(v.ks) |-> PyStr(v.ks[i])])
      [] v.t = "str" -> Ret([i \in 1..Len(v.s) |-> Str1(v.s[i])])
      [] OTHER -> Raise(<<"TypeError">>)

(***************************************************************************)
(* The LLM client: what self.client.messages.create does with one request  *)
(***************************************************************************)
\* a message whose content blocks carry the given texts
Message(content) == [kind |-> "message", content |-> content]
\* an exception raised by the client, with str(e) = msg
ClientError(msg) == [kind |-> "raise", msg |-> msg]

TransportFailures == {<<"timeout">>, <<"authentication_error">>, <<"rate_limit_error">>}

\* message.content[0].text
ResponseText(o) ==
    IF o.kind = "raise" THEN Raise(o.msg)
    ELSE IF Len(o.content) = 0 THEN Raise(<<"list index out of range">>)
    ELSE Ret(o.content[1])

(***************************************************************************)
(* ClaudeAnalyzer.analyze_batch                                            *)
(***************************************************************************)
\* texts[:100]
TEXT_LIMIT == 100
SEP == "\n\n---\n\n"

RECURSIVE Join(_, _)
\* sep.join(strs) on the atoms of the strings: the halves joined, sep between them
Join(sep, strs) ==
    IF strs = <<>> THEN <<>>
    ELSE IF Len(strs) = 1 THEN strs[1].s
    ELSE LET h == Len(strs) \div 2 IN
         Join(sep, SubSeq(strs, 1, h)) \o <<sep>> \o Join(sep, SubSeq(strs, h + 1, Len(strs)))

\* the prompt built from all the texts
BuildAnalysisPrompt_NoLimit(texts, context) ==
    [template |-> "analysis",
     context |-> IF Truthy(context) THEN <<"PRODUCT/CATEGORY CONTEXT: ">> \o context.s ELSE <<>>,
     combined_texts |-> Join(SEP, texts)]

\* the prompt: the fixed template with its two holes filled
BuildAnalysisPrompt(texts, context) ==
    [template |-> "analysis",
     context |-> IF Truthy(context) THEN <<"PRODUCT/CATEGORY CONTEXT: ">> \o context.s ELSE <<>>,
     combined_texts |-> Join(SEP, PySlice(texts, TEXT_LIMIT))]

\* analyze_batch without the inner handler: JSONDecodeError reaches the outer one
AnalyzeBatchResult_NoWrap(o) ==
    LET rt == ResponseText(o) IN
    IF rt.raised THEN Ret(Dict1("error", PyStr(rt.exc)))
    ELSE LET p == JsonLoads(rt.val) IN
         IF p.ok THEN Ret(p.val) ELSE Ret(Dict1("error", PyStr(<<"JSONDecodeError">>)))

\* lines 52-65: what analyze_batch returns once the client call has ended
AnalyzeBatchResult(o) ==
    LET rt == ResponseText(o) IN
    IF rt.raised THEN Ret(Dict1("error", PyStr(rt.exc)))
    ELSE LET p == JsonLoads(rt.val) IN
         IF p.ok THEN Ret(p.val) ELSE Ret(Dict1("raw_analysis", PyStr(rt.val)))

(***************************************************************************)
(* ClaudeAnalyzer.generate_ad_copy_framework                               *)
(***************************************************************************)
BuildFrameworkPrompt(analysis) ==
    [template |-> "ad_framework", analysis_data |-> JsonDumps(analysis)]

\* generate_ad_copy_framework without the outer handler
FrameworkResult_NoHandler(o) ==
    LET rt == ResponseText(o) IN
    IF rt.raised THEN Raise(rt.exc)
    ELSE LET p == JsonLoads(rt.val) IN
         IF p.ok THEN Ret(p.val) ELSE Ret(Dict1("raw_framework", PyStr(rt.val)))

\* lines 241-252
FrameworkResult(o) ==
    LET rt == ResponseText(o) IN
    IF rt.raised THEN Ret(Dict1("error", PyStr(rt.exc)))
    ELSE LET p == JsonLoads(rt.val) IN
         IF p.ok THEN Ret(p.val) ELSE Ret(Dict1("raw_framework", PyStr(rt.val)))

(***************************************************************************)
(* ClaudeAnalyzer.categorize_by_awareness                                  *)
(***************************************************************************)
CATEGORIZE_LIMIT == 50
Stages == <<"unaware", "problem_aware", "solution_aware", "product_aware", "most_aware">>
StageKeys == {K(Stages[i]) : i \in 1..Len(Stages)}

\* [item[text_field] for item in data if text_field in item][:50]
CategorizeTexts(data) ==
    PySlice(SelectSeq(data, LAMBDA item : HasKey(item, "text")), CATEGORIZE_LIMIT)

SentTexts(data) == LET items == CategorizeTexts(data) IN [i \in 1..Len(items) |-> items[i].o[K("text")]]

BuildCategorizePrompt(data) ==
    [template |-> "categorize", texts |-> JsonDumps(PyList(SentTexts(data)))]

\* the five empty buckets
EmptyBuckets == PyDict([i \in 1..Len(Stages) |-> K(Stages[i])], [k \in StageKeys |-> EmptyList])

\* data[idx]: a negative idx counts from the end
DataIndex(data, idx) ==
    IF idx >= 0 /\ idx < Len(data) THEN Ret(data[idx + 1])
    ELSE IF idx < 0 /\ idx >= -Len(data) THEN Ret(data[Len(data) + idx + 1])
    ELSE Raise(<<"IndexError">>)

\* the integer an index value stands for: True is 1, False is 0
IndexValue(idx) == IF idx.t = "bool" THEN (IF idx.b THEN 1 ELSE 0) ELSE idx.n

\* idx < n, for an int, a bool or a float
IndexBelow(idx, n) ==
    IF idx.t = "float" THEN FloatTokTwice[idx.tok] < 2 * n ELSE IndexValue(idx) < n

\* idx < len(data) and stage in categorized
AcceptAssignment(data, idx, stage) ==
    IF idx.t \notin {"int", "bool", "float"} THEN Raise(<<"TypeError">>)
    ELSE IF ~IndexBelow(idx, Len(data)) THEN Ret(FALSE)
    ELSE IF stage.t \in {"list", "dict"} THEN Raise(<<"TypeError">>)
    ELSE Ret(stage.t = "str" /\ stage.s \in StageKeys)

RECURSIVE Bucket_SetDefault(_, _, _)
\* the loop with categorized.setdefault(stage, []) instead of the stage test
Bucket_SetDefault(data, items, categorized) ==
    IF items = <<>> THEN Ret(categorized)
    ELSE LET item == Head(items)
             idx == PyItem(item, "text_index")
             stage == PyItem(item, "stage") IN
         IF idx.raised THEN idx
         ELSE IF stage.raised THEN stage
         ELSE IF idx.val.t # "int" \/ stage.val.t # "str" THEN Raise(<<"TypeError">>)
         ELSE IF ~(idx.val.n < Len(data)) THEN Bucket_SetDefault(data, Tail(items), categorized)
         ELSE LET d == DataIndex(data, idx.val.n)
                  old == IF stage.val.s \in DOMAIN categorized.o
                         THEN categorized.o[stage.val.s].a ELSE <<>> IN
              IF d.raised THEN d
              ELSE Bucket_SetDefault(data, Tail(items),
                       DictSet(categorized, stage.val.s, PyList(Append(old, d.val))))

RECURSIVE Bucket(_, _, _)
\* lines 320-324: the loop over the assignments, from the buckets filled so far
Bucket(data, items, categorized) ==
    IF items = <<>> THEN Ret(categorized)
    ELSE LET item == Head(items)
             idx == PyItem(item, "text_index")
             stage == PyItem(item, "stage") IN
         IF idx.raised THEN idx
         ELSE IF stage.raised THEN stage
         ELSE LET acc == AcceptAssignment(data, idx.val, stage.val) IN
              IF acc.raised THEN acc
              ELSE IF ~acc.val THEN Bucket(data, Tail(items), categorized)
              ELSE LET d == IF idx.val.t = "float" THEN Raise(<<"TypeError">>)
                            ELSE DataIndex(data, IndexValue(idx.val)) IN
                   IF d.raised THEN d
                   ELSE Bucket(data, Tail(items),
                               DictSet(categorized, stage.val.s,
                                       PyList(Append(categorized.o[stage.val.s].a, d.val))))

\* lines 308-326 without the handler of line 328
CategorizeBody(data, o) ==
    LET rt == ResponseText(o) IN
    IF rt.raised THEN Raise(<<"APIError">>)
    ELSE LET p == JsonLoads(rt.val) IN
         IF ~p.ok THEN Raise(<<"JSONDecodeError">>)
         ELSE LET lst == PyGet(p.val, "categorized", EmptyList) IN
              IF lst.raised THEN lst
              ELSE LET it == PyIter(lst.val) IN
                   IF it.raised THEN it
                   ELSE Bucket(data, it.val, EmptyBuckets)

\* categorize_by_awareness without the handler of lines 328-330
CategorizeResult_NoHandler(data, o) == CategorizeBody(data, o)

\* lines 308-330: what categorize_by_awareness returns once the client call has ended
CategorizeResult(data, o) ==
    LET r == CategorizeBody(data, o) IN
    IF r.raised THEN Ret(EmptyDict) ELSE r

(***************************************************************************)
(* State                                                                   *)
(***************************************************************************)
VARIABLES
    pc,            \* main: the statement the run is at
    args,          \* main: the parsed command line
    api_keys,      \* main: get_api_keys(), TRUE for a key that is set
    data,          \* main: the scraped records
    analysis,      \* main: what analyze_batch returned
    ad_framework,  \* main: what generate_ad_copy_framework returned
    message_map,   \* main: what generate_message_map returned
    files,         \* the files written under the output directory
    exit_status,   \* "running", "ok", "exit1" (sys.exit(1)) or "exception"
    console,       \* main: what was printed about each source, in order
    call,          \* analyzer: the method invocation in progress or last ended
    in_flight,     \* requests sent to the LLM API and not yet answered
    req_log,       \* every request sent to the LLM API, in order
    response,      \* what the client call of the invocation ended with
    result,        \* what the invocation returned
    clock,         \* what datetime.now() reads
    gen,           \* generator: the MessageMapGenerator method that ended last
    outputs        \* generator: the content of each file written, by encoding and file stamp

mainVars == <<pc, args, api_keys, data, analysis, ad_framework, message_map, files, exit_status,
              console>>
analyzerVars == <<call, in_flight, req_log, response, result>>
generatorVars == <<clock, gen, outputs>>
vars == <<pc, args, api_keys, data, analysis, ad_framework, message_map, files, exit_status,
          console, call, in_flight, req_log, response, result, clock, gen, outputs>>

IdleCall == [pass |-> "none", phase |-> "idle", inv |-> 0, arg |-> None]

AnalyzerInit ==
    /\ call = IdleCall
    /\ in_flight = <<>>
    /\ req_log = <<>>
    /\ response = None
    /\ result = None

\* no method of the generator has been called, nothing is written
IdleGen == [op |-> "none", phase |-> "idle", exc |-> <<>>]

GeneratorInit ==
    /\ clock = 0
    /\ gen = IdleGen
    /\ outputs = <<>>

(***************************************************************************)
(* The three methods of ClaudeAnalyzer as steps: the part up to the        *)
(* blocking client call, and the part from its end to the return           *)
(***************************************************************************)
\* self.client.messages.create(...) is entered: one request leaves
SendRequest(pass, arg, prompt) ==
    /\ call.phase # "waiting"
    /\ call' = [pass |-> pass, phase |-> "waiting", inv |-> call.inv + 1, arg |-> arg]
    /\ in_flight' = Append(in_flight, [inv |-> call.inv + 1, pass |-> pass, prompt |-> prompt])
    /\ req_log' = Append(req_log, [inv |-> call.inv + 1, pass |-> pass])
    /\ response' = None
    /\ result' = None

\* the client call ends with o and the method returns r (or raises)
EndCall(o, r) ==
    /\ call.phase = "waiting"
    /\ call' = [call EXCEPT !.phase = IF r.raised THEN "raised" ELSE "returned"]
    /\ in_flight' = SelectSeq(in_flight, LAMBDA q : q.inv # call.inv)
    /\ response' = o
    /\ result' = IF r.raised THEN None ELSE r.val
    /\ UNCHANGED req_log
    /\ UNCHANGED mainVars
    /\ UNCHANGED generatorVars

\* analyze_batch, lines 39-50
AnalyzeBatchCall(texts, context) ==
    SendRequest("pattern", PyList(texts), BuildAnalysisPrompt(texts, context))

\* analyze_batch that sends the request again, up to three times, when the client raises
AnalyzeBatchReturn_Retry(o) ==
    /\ call.pass = "pattern"
    /\ IF o.kind = "raise" /\ Cardinality({i \in 1..Len(req_log) : req_log[i].inv = call.inv}) < 3
       THEN /\ call.phase = "waiting"
            /\ req_log' = Append(req_log, [inv |-> call.inv, pass |-> "pattern"])
            /\ response' = o
            /\ UNCHANGED <<call, in_flight, result>>
            /\ UNCHANGED mainVars
            /\ UNCHANGED generatorVars
       ELSE EndCall(o, AnalyzeBatchResult(o))

\* analyze_batch, lines 52-65
AnalyzeBatchReturn(o) ==
    /\ call.pass = "pattern"
    /\ EndCall(o, AnalyzeBatchResult(o))

\* generate_ad_copy_framework, lines 165-239
FrameworkCall(a) ==
    SendRequest("framework", a, BuildFrameworkPrompt(a))

\* generate_ad_copy_framework that degrades under the key of the pattern pass
FrameworkReturn_PatternKey(o) ==
    /\ call.pass = "framework"
    /\ EndCall(o, AnalyzeBatchResult(o))

\* generate_ad_copy_framework, lines 241-252
FrameworkReturn(o) ==
    /\ call.pass = "framework"
    /\ EndCall(o, FrameworkResult(o))

\* categorize_by_awareness without the test of line 272
CategorizeCall_AlwaysSend(d) == SendRequest("categorize", PyList(d), BuildCategorizePrompt(d))

\* categorize_by_awareness, lines 270-306: no request when no item has the text field
CategorizeCall(d) ==
    IF CategorizeTexts(d) = <<>>
    THEN /\ call.phase # "waiting"
         /\ call' = [pass |-> "categorize", phase |-> "returned", inv |-> call.inv + 1,
                     arg |-> PyList(d)]
         /\ response' = None
         /\ result' = EmptyDict
         /\ UNCHANGED <<in_flight, req_log>>
    ELSE SendRequest("categorize", PyList(d), BuildCategorizePrompt(d))

\* categorize_by_awareness, lines 308-330
CategorizeReturn(o) ==
    /\ call.pass = "categorize"
    /\ EndCall(o, CategorizeResult(call.arg.a, o))

(***************************************************************************)
(* analyze_data: the corpus of text units (main.py lines 106-121)          *)
(***************************************************************************)
\* the text of every nested comment or reply that is a dict with a text field
NestedTexts(item, field) ==
    IF ~HasKey(item, field) THEN <<>>
    ELSE LET sub == SelectSeq(item.o[K(field)].a,
                              LAMBDA c : c.t = "dict" /\ HasKey(c, "text")) IN
         [i \in 1..Len(sub) |-> sub[i].o[K("text")]]

\* the field of the record when it is present and truthy
OwnText(item, field) ==
    IF HasKey(item, field) /\ Truthy(item.o[K(field)]) THEN <<item.o[K(field)]>> ELSE <<>>

ItemTexts(item) ==
    OwnText(item, "text") \o OwnText(item, "title")
        \o NestedTexts(item, "comments") \o NestedTexts(item, "replies")

RECURSIVE CorpusTexts(_)
CorpusTexts(d) ==
    IF d = <<>> THEN <<>> ELSE ItemTexts(Head(d)) \o CorpusTexts(Tail(d))

(***************************************************************************)
(* MessageMapGenerator: generate_message_map and what it calls             *)
(***************************************************************************)
NA == Str1("N/A")

\* datetime.now() as a string, for the reading t of the clock
Stamp(t) == Str1(ToString(t))

\* seq[-1][key] if seq else "N/A": the last entry instead of the first
FirstField_Last(seq, key) ==
    IF ~Truthy(seq) THEN Ret(NA)
    ELSE CASE seq.t = "list" -> PyItem(seq.a[Len(seq.a)], key)
           [] seq.t = "str" -> Raise(<<"TypeError">>)
           [] seq.t = "dict" -> Raise(<<"KeyError">>)
           [] OTHER -> Raise(<<"TypeError">>)

\* seq[0][key] if seq else "N/A"
FirstField(seq, key) ==
    IF ~Truthy(seq) THEN Ret(NA)
    ELSE CASE seq.t = "list" -> PyItem(seq.a[1], key)
           [] seq.t = "str" -> Raise(<<"TypeError">>)
           [] seq.t = "dict" -> Raise(<<"KeyError">>)
           [] OTHER -> Raise(<<"TypeError">>)

\* len(v)
PyLen(v) ==
    CASE v.t = "list" -> Ret(PyInt(Len(v.a)))
      [] v.t = "str" -> Ret(PyInt(Len(v.s)))
      [] v.t = "dict" -> Ret(PyInt(Cardinality(DOMAIN v.o)))
      [] OTHER -> Raise(<<"TypeError">>)

\* the first exception among the results, in order, else none
FirstRaised(rs) ==
    IF \E i \in 1..Len(rs) : rs[i].raised
    THEN rs[CHOOSE i \in 1..Len(rs) : rs[i].raised /\ \A j \in 1..(i - 1) : ~rs[j].raised]
    ELSE Ret(None)

\* a dict from a sequence of <<key, value>> pairs
RECURSIVE DictOf(_)
DictOf(pairs) ==
    IF pairs = <<>> THEN EmptyDict
    ELSE LET n == Len(pairs) IN DictSet(DictOf(SubSeq(pairs, 1, n - 1)), K(pairs[n][1]), pairs[n][2])

\* _generate_summary that reports the error message of an Error analysis as the top pain point
GenerateSummary_ShowError(a) ==
    LET pain_points == PyGet(a, "pain_points", EmptyList)
        emotions == PyGet(a, "emotional_patterns", EmptyList)
        desires == PyGet(a, "desire_triggers", EmptyList) IN
    IF pain_points.raised THEN pain_points
    ELSE LET top == IF HasKey(a, "error") THEN Ret(a.o[K("error")])
                    ELSE FirstField(pain_points.val, "pain_point")
             dom == FirstField(emotions.val, "emotion")
             pri == FirstField(desires.val, "desire")
             ne == PyLen(emotions.val)
             np == PyLen(pain_points.val)
             nd == PyLen(desires.val)
             bad == FirstRaised(<<top, dom, pri, ne, np, nd>>) IN
         IF bad.raised THEN bad
         ELSE Ret(DictOf(<< <<"top_pain_point", top.val>>,
                            <<"dominant_emotion", dom.val>>,
                            <<"primary_desire", pri.val>>,
                            <<"total_emotional_patterns", ne.val>>,
                            <<"total_pain_points", np.val>>,
                            <<"total_desire_triggers", nd.val>> >>))

\* _generate_summary, lines 61-74
GenerateSummary(a) ==
    LET pain_points == PyGet(a, "pain_points", EmptyList)
        emotions == PyGet(a, "emotional_patterns", EmptyList)
        desires == PyGet(a, "desire_triggers", EmptyList) IN
    IF pain_points.raised THEN pain_points
    ELSE LET top == FirstField(pain_points.val, "pain_point")
             dom == FirstField(emotions.val, "emotion")
             pri == FirstField(desires.val, "desire")
             ne == PyLen(emotions.val)
             np == PyLen(pain_points.val)
             nd == PyLen(desires.val)
             bad == FirstRaised(<<top, dom, pri, ne, np, nd>>) IN
         IF bad.raised THEN bad
         ELSE Ret(DictOf(<< <<"top_pain_point", top.val>>,
                            <<"dominant_emotion", dom.val>>,
                            <<"primary_desire", pri.val>>,
                            <<"total_emotional_patterns", ne.val>>,
                            <<"total_pain_points", np.val>>,
                            <<"total_desire_triggers", nd.val>> >>))

\* the date strings of the records, in lexicographic order
DateOrder == <<"2024-01-05T10:00:00", "2024-03-01T09:30:00Z", "Reviewed on March 3, 2024">>
DateRank(d) == CHOOSE i \in 1..Len(DateOrder) : DateOrder[i] = d.s[1]

\* item.get('date') or item.get('published_at') or item.get('created_utc')
ItemDate_DateFirst(item) ==
    LET c == PyGet(item, "created_utc", None).val
        p == PyGet(item, "published_at", None).val
        d == PyGet(item, "date", None).val IN
    IF Truthy(d) THEN d ELSE IF Truthy(p) THEN p ELSE c

\* item.get('created_utc') or item.get('published_at') or item.get('date')
ItemDate(item) ==
    LET c == PyGet(item, "created_utc", None).val
        p == PyGet(item, "published_at", None).val
        d == PyGet(item, "date", None).val IN
    IF Truthy(c) THEN c ELSE IF Truthy(p) THEN p ELSE d

\* _get_date_range, lines 91-106
GetDateRange(raw_data) ==
    LET all == [i \in 1..Len(raw_data) |-> ItemDate(raw_data[i])]
        dates == SelectSeq(all, Truthy)
        ranks == {DateRank(dates[i]) : i \in 1..Len(dates)} IN
    IF dates # <<>>
    THEN Dict2("earliest", Str1(DateOrder[CHOOSE r \in ranks : \A q \in ranks : r <= q]),
               "latest", Str1(DateOrder[CHOOSE r \in ranks : \A q \in ranks : r >= q]))
    ELSE Dict2("earliest", NA, "latest", NA)

\* item.get('source', 'unknown')
ItemSource(item) == PyGet(item, "source", Str1("unknown")).val

RECURSIVE CountSources_NoIncrement(_, _)
\* the loop with sources[source] = 1: a tag seen again is not counted again
CountSources_NoIncrement(raw_data, sources) ==
    IF raw_data = <<>> THEN sources
    ELSE CountSources_NoIncrement(Tail(raw_data),
                                  DictSet(sources, ItemSource(Head(raw_data)).s, PyInt(1)))

\* lines 81-83: sources[source] = sources.get(source, 0) + 1, record by record
RECURSIVE CountSources(_, _)
CountSources(raw_data, sources) ==
    IF raw_data = <<>> THEN sources
    ELSE LET source == ItemSource(Head(raw_data)).s
             n == IF source \in DOMAIN sources.o THEN sources.o[source].n ELSE 0 IN
         CountSources(Tail(raw_data), DictSet(sources, source, PyInt(n + 1)))

\* _summarize_raw_data, lines 76-89
SummarizeRawData(raw_data) ==
    DictOf(<< <<"total_items", PyInt(Len(raw_data))>>,
              <<"sources", CountSources(raw_data, EmptyDict)>>,
              <<"date_range", GetDateRange(raw_data)>> >>)

\* generate_message_map, lines 41-59; now is datetime.now().isoformat()
GenerateMessageMap(a, f, raw_data, metadata, now) ==
    LET summary == GenerateSummary(a)
        hooks == PyGet(f, "hooks", EmptyDict) IN
    IF summary.raised THEN summary
    ELSE IF hooks.raised THEN hooks
    ELSE Ret(DictOf(<<
        <<"generated_at", now>>,
        <<"metadata", IF Truthy(metadata) THEN metadata ELSE EmptyDict>>,
        <<"executive_summary", summary.val>>,
        <<"emotional_intelligence", PyGet(a, "emotional_patterns", EmptyList).val>>,
        <<"pain_points", PyGet(a, "pain_points", EmptyList).val>>,
        <<"desire_triggers", PyGet(a, "desire_triggers", EmptyList).val>>,
        <<"awareness_stages", PyGet(a, "awareness_stages", EmptyDict).val>>,
        <<"language_patterns", PyGet(a, "language_patterns", EmptyDict).val>>,
        <<"ad_ready_hooks", hooks.val>>,
        <<"body_copy_frameworks", PyGet(f, "body_copy_frameworks", EmptyList).val>>,
        <<"headline_formulas", PyGet(f, "headline_formulas", EmptyList).val>>,
        <<"call_to_actions", PyGet(f, "call_to_action_suggestions", EmptyList).val>>,
        <<"objection_handlers", PyGet(f, "objection_handlers", EmptyList).val>>,
        <<"key_insights", PyGet(a, "key_insights", EmptyList).val>>,
        <<"raw_data_summary", IF raw_data # <<>> THEN SummarizeRawData(raw_data) ELSE None>> >>))

(***************************************************************************)
(* MessageMapGenerator: the three encodings                                *)
(***************************************************************************)
RECURSIVE PyRepr(_)
RECURSIVE ReprElements(_)
RECURSIVE ReprMembers(_, _)

ReprElements(a) ==
    IF a = <<>> THEN <<>>
    ELSE PyRepr(a[1]) \o (IF Len(a) = 1 THEN <<>> ELSE <<", ">> \o ReprElements(Tail(a)))

ReprMembers(o, keys) ==
    IF keys = <<>> THEN <<>>
    ELSE <<"'">> \o Head(keys) \o <<"'", ": ">> \o PyRepr(o[Head(keys)])
             \o (IF Len(keys) = 1 THEN <<>> ELSE <<", ">> \o ReprMembers(o, Tail(keys)))

\* repr(v): what an f-string shows of a value inside a list or a dict
PyRepr(v) ==
    CASE v.t = "str" -> <<"'">> \o v.s \o <<"'">>
      [] v.t = "int" -> <<ToString(v.n)>>
      [] v.t = "float" -> <<v.tok>>
      [] v.t = "bool" -> IF v.b THEN <<"True">> ELSE <<"False">>
      [] v.t = "none" -> <<"None">>
      [] v.t = "list" -> <<"[">> \o ReprElements(v.a) \o <<"]">>
      [] v.t = "dict" -> <<"{">> \o ReprMembers(v.o, v.ks) \o <<"}">>

\* str(v): what an f-string shows of a value
PyStrOf(v) == IF v.t = "str" THEN v.s ELSE PyRepr(v)

\* f"{d.get(k, default)}"
Shown(d, k, default) ==
    LET g == PyGet(d, k, default) IN IF g.raised THEN g ELSE Ret(PyStrOf(g.val))

\* one line made of a fixed text and a shown value
Line(prefix, shown) == IF shown.raised THEN shown ELSE Ret(<< prefix \o shown.val >>)

RECURSIVE Flatten(_)
Flatten(seqs) == IF seqs = <<>> THEN <<>> ELSE Head(seqs) \o Flatten(Tail(seqs))

\* the parts in order: the first exception among them, else their concatenation
Concat(rs) ==
    LET bad == FirstRaised(rs) IN
    IF bad.raised THEN bad ELSE Ret(Flatten([i \in 1..Len(rs) |-> rs[i].val]))

\* for i, x in enumerate(it, 1): Body(i, x)
ForEach(it, Body(_, _)) ==
    IF it.raised THEN it ELSE Concat([i \in 1..Len(it.val) |-> Body(i, it.val[i])])

\* for x in d.get(k, []): one line, a fixed text and str(x)
ItemLines(d, k, prefix) ==
    LET g == PyGet(d, k, EmptyList) IN
    IF g.raised THEN g
    ELSE ForEach(PyIter(g.val), LAMBDA i, x : Ret(<< prefix \o PyStrOf(x) >>))

\* s.title() on the atoms of the texts of the samples
TitleAtom(a) ==
    CASE a = "frustration" -> "Frustration"
      [] a = "problem_aware" -> "Problem_Aware"
      [] a = "problem aware" -> "Problem Aware"
      [] OTHER -> a
\* s.replace('_', ' ')
ReplaceAtom(a) == IF a = "problem_aware" THEN "problem aware" ELSE a

StrTitle(s) == [i \in 1..Len(s) |-> TitleAtom(s[i])]
StrReplace(s) == [i \in 1..Len(s) |-> ReplaceAtom(s[i])]

\* v.title(), v.replace('_', ' ').title(): AttributeError unless v is a str
Titled(v) == IF v.t = "str" THEN Ret(StrTitle(v.s)) ELSE Raise(<<"AttributeError">>)
StageTitled(v) == IF v.t = "str" THEN Ret(StrTitle(StrReplace(v.s))) ELSE Raise(<<"AttributeError">>)

\* d.items(): the pairs in the order of the keys
PyItems(d) ==
    IF d.t # "dict" THEN Raise(<<"AttributeError">>)
    ELSE Ret([i \in 1..Len(d.ks) |-> <<PyStr(d.ks[i]), d.o[d.ks[i]]>>])

Blank == Ret(<< <<>> >>)

\* a section header of the Markdown encoding
MdHeader(title) == Ret(<< <<"## ", title, "\n">> >>)

\* lines 169-179
MdSummary(mm) ==
    LET summary == PyGet(mm, "executive_summary", EmptyDict).val IN
    Concat(<< Ret(<< <<"# ", "Customer Language Message Map">> >>),
              LET g == Shown(mm, "generated_at", NA) IN
                  IF g.raised THEN g ELSE Ret(<< <<"\n", "Generated: ">> \o g.val \o <<"\n">> >>),
              MdHeader("Executive Summary"),
              Line(<<"- **Top Pain Point:** ">>, Shown(summary, "top_pain_point", NA)),
              Line(<<"- **Dominant Emotion:** ">>, Shown(summary, "dominant_emotion", NA)),
              Line(<<"- **Primary Desire:** ">>, Shown(summary, "primary_desire", NA)),
              Line(<<"- **Total Patterns Identified:** ">>,
                   Shown(summary, "total_emotional_patterns", PyInt(0))),
              Blank >>)

\* lines 182-185
MdKeyInsights(mm) ==
    Concat(<< MdHeader("Key Insights"), ItemLines(mm, "key_insights", <<"- ">>), Blank >>)

\* lines 190-195: one pain point
MdPainPoint(i, pain) ==
    Concat(<< Line(<<"### ", ToString(i), ". ">>, Shown(pain, "pain_point", NA)),
              Line(<<"**Severity:** ">>, Shown(pain, "severity", NA)),
              Ret(<< <<"\n", "**Customer Quotes:**">> >>),
              ItemLines(pain, "customer_quotes", <<"> ">>),
              Blank >>)

\* lines 188-195
MdPainPoints(mm) ==
    Concat(<< MdHeader("Pain Points"),
              ForEach(PyIter(PyGet(mm, "pain_points", EmptyList).val), MdPainPoint) >>)

\* lines 200-206: one emotional pattern
MdEmotion(i, emotion) ==
    LET e == PyGet(emotion, "emotion", NA) IN
    Concat(<< Line(<<"### ">>, IF e.raised THEN e ELSE Titled(e.val)),
              Line(<<"**Frequency:** ">>, Shown(emotion, "frequency", NA)),
              Line(<<"**Advertising Angle:** ">>, Shown(emotion, "advertising_angle", NA)),
              Ret(<< <<"\n", "**Example Quotes:**">> >>),
              ItemLines(emotion, "example_quotes", <<"> ">>),
              Blank >>)

\* the section without its header when there is no emotional pattern
MdEmotions_SkipEmpty(mm) ==
    IF ~Truthy(PyGet(mm, "emotional_intelligence", EmptyList).val) THEN Ret(<<>>)
    ELSE Concat(<< MdHeader("Emotional Patterns"),
                   ForEach(PyIter(PyGet(mm, "emotional_intelligence", EmptyList).val), MdEmotion) >>)

\* lines 198-206
MdEmotions(mm) ==
    Concat(<< MdHeader("Emotional Patterns"),
              ForEach(PyIter(PyGet(mm, "emotional_intelligence", EmptyList).val), MdEmotion) >>)

\* lines 212-218
StageNames == <<"Unaware", "Problem Aware", "Solution Aware", "Product Aware", "Most Aware">>

\* lines 221-230: one awareness stage
MdStage(awareness, i) ==
    LET stage_data == PyGet(awareness, Stages[i], EmptyDict) IN
    IF stage_data.raised THEN stage_data
    ELSE IF ~Truthy(stage_data.val) THEN Ret(<<>>)
    ELSE Concat(<< Ret(<< <<"### ", StageNames[i]>> >>),
                   Ret(<< <<"\n", "**Key Phrases:**">> >>),
                   ItemLines(stage_data.val, "indicators", <<"- ">>),
                   Ret(<< <<"\n", "**Example Quotes:**">> >>),
                   ItemLines(stage_data.val, "quotes", <<"> ">>),
                   Blank >>)

\* lines 209-230
MdAwareness(mm) ==
    LET awareness == PyGet(mm, "awareness_stages", EmptyDict).val IN
    Concat(<< MdHeader("Customer Awareness Stages") >>
           \o [i \in 1..Len(Stages) |-> MdStage(awareness, i)])

\* lines 236-239: the hooks of one stage
MdHookList(i, pair) ==
    Concat(<< Line(<<"### ">>, StageTitled(pair[1])),
              ForEach(PyIter(pair[2]), LAMBDA j, hook : Ret(<< <<"- ">> \o PyStrOf(hook) >>)),
              Blank >>)

\* lines 233-239
MdHooks(mm) ==
    Concat(<< MdHeader("Ad-Ready Hooks"),
              ForEach(PyItems(PyGet(mm, "ad_ready_hooks", EmptyDict).val), MdHookList) >>)

\* lines 244-248: one body copy framework
MdFramework(i, framework) ==
    Concat(<< Line(<<"### ">>, Shown(framework, "framework_name", NA)),
              Line(<<"**Target Awareness:** ">>, Shown(framework, "target_awareness", NA)),
              Ret(<< <<"\n", "**Example:**">> >>),
              Line(<<"> ">>, Shown(framework, "example", NA)),
              Blank >>)

\* lines 242-248
MdFrameworks(mm) ==
    Concat(<< MdHeader("Body Copy Frameworks"),
              ForEach(PyIter(PyGet(mm, "body_copy_frameworks", EmptyList).val), MdFramework) >>)

\* lines 251-254
MdCallToActions(mm) ==
    Concat(<< MdHeader("Call to Action Suggestions"),
              ItemLines(mm, "call_to_actions", <<"- ">>), Blank >>)

\* lines 259-261: one objection handler
MdObjection(i, obj) ==
    Concat(<< Line(<<"**Objection:** ">>, Shown(obj, "objection", NA)),
              Line(<<"**Response:** ">>, Shown(obj, "response", NA)),
              Blank >>)

\* lines 257-261
MdObjections(mm) ==
    Concat(<< MdHeader("Objection Handlers"),
              ForEach(PyIter(PyGet(mm, "objection_handlers", EmptyList).val), MdObjection) >>)

\* "\n".join(md)
JoinLines(md) == Join("\n", [i \in 1..Len(md) |-> PyStr(md[i])])

\* _generate_markdown that shows the time of the rendering as the generation time
GenerateMarkdown_Clock(mm) ==
    LET md == Concat(<< MdSummary(DictSet(mm, K("generated_at"), Stamp(clock))),
                        MdKeyInsights(mm), MdPainPoints(mm), MdEmotions(mm),
                        MdAwareness(mm), MdHooks(mm), MdFrameworks(mm), MdCallToActions(mm),
                        MdObjections(mm) >>) IN
    IF md.raised THEN md ELSE Ret(JoinLines(md.val))

\* _generate_markdown, lines 164-263
GenerateMarkdown(mm) ==
    LET md == Concat(<< MdSummary(mm), MdKeyInsights(mm), MdPainPoints(mm), MdEmotions(mm),
                        MdAwareness(mm), MdHooks(mm), MdFrameworks(mm), MdCallToActions(mm),
                        MdObjections(mm) >>) IN
    IF md.raised THEN md ELSE Ret(JoinLines(md.val))

\* a part of the HTML text: fixed markup around a shown value
Html(before, shown, after) ==
    IF shown.raised THEN shown ELSE Ret(<<before>> \o shown.val \o <<after>>)

\* a section header of the HTML encoding
HtmlHeader(title) == Ret(<<"<h2>", title, "</h2>">>)

\* lines 298-393: the fixed layout, the title, the summary and the start of the insights
HtmlSummary(mm) ==
    LET summary == PyGet(mm, "executive_summary", EmptyDict).val IN
    Concat(<< Ret(<<"<!DOCTYPE html><html><head><style>", "</style></head><body><div class=container>">>),
              Ret(<<"<h1>", "Customer Language Message Map", "</h1>">>),
              Html("<p><strong>Generated:</strong> ", Shown(mm, "generated_at", NA), "</p>"),
              Ret(<<"<div class=summary>">>),
              HtmlHeader("Executive Summary"),
              Html("<p><strong>Top Pain Point:</strong> ", Shown(summary, "top_pain_point", NA), "</p>"),
              Html("<p><strong>Dominant Emotion:</strong> ", Shown(summary, "dominant_emotion", NA), "</p>"),
              Html("<p><strong>Primary Desire:</strong> ", Shown(summary, "primary_desire", NA), "</p>"),
              Html("<p><strong>Patterns Identified:</strong> ",
                   Shown(summary, "total_emotional_patterns", PyInt(0)), " emotional patterns,"),
              Html(" ", Shown(summary, "total_pain_points", PyInt(0)), " pain points,"),
              Html(" ", Shown(summary, "total_desire_triggers", PyInt(0)), " desire triggers</p>"),
              Ret(<<"</div>">>) >>)

\* lines 391-398
HtmlKeyInsights(mm) ==
    Concat(<< HtmlHeader("Key Insights"),
              Ret(<<"<ul>">>),
              ForEach(PyIter(PyGet(mm, "key_insights", EmptyList).val),
                      LAMBDA i, insight : Ret(<<"<li>">> \o PyStrOf(insight) \o <<"</li>">>)),
              Ret(<<"</ul>">>) >>)

\* lines 404-411: one pain point, its badge and its quotes
HtmlPainPoint(i, pain) ==
    LET severity == Shown(pain, "severity", Str1("medium")) IN
    Concat(<< Ret(<<"<div class=pain-point>">>),
              Html("<h3>", Shown(pain, "pain_point", NA), " "),
              Html("<span class=badge badge-", severity, ">"),
              IF severity.raised THEN severity ELSE Ret(severity.val \o <<"</span></h3>">>),
              Ret(<<"<p><strong>Customer Quotes:</strong></p>">>),
              ForEach(PyIter(PyGet(pain, "customer_quotes", EmptyList).val),
                      LAMBDA j, quote : Ret(<<"<div class=quote>">> \o PyStrOf(quote) \o <<"</div>">>)),
              Ret(<<"</div>">>) >>)

\* lines 400-411
HtmlPainPoints(mm) ==
    Concat(<< HtmlHeader("Pain Points"),
              ForEach(PyIter(PyGet(mm, "pain_points", EmptyList).val), HtmlPainPoint) >>)

\* lines 418-420: the hooks of one stage
HtmlHookList(i, pair) ==
    Concat(<< Html("<h3>", StageTitled(pair[1]), "</h3>"),
              ForEach(PyIter(pair[2]),
                      LAMBDA j, hook : Ret(<<"<div class=hook>">> \o PyStrOf(hook) \o <<"</div>">>)) >>)

\* lines 414-420
HtmlHooks(mm) ==
    Concat(<< HtmlHeader("Ad-Ready Hooks"),
              ForEach(PyItems(PyGet(mm, "ad_ready_hooks", EmptyDict).val), HtmlHookList) >>)

\* lines 427-433: one body copy framework
HtmlFramework(i, framework) ==
    Concat(<< Ret(<<"<div class=framework>">>),
              Html("<h3>", Shown(framework, "framework_name", NA), "</h3>"),
              Html("<p><strong>Target Awareness:</strong> ",
                   Shown(framework, "target_awareness", NA), "</p>"),
              Ret(<<"<p><strong>Example:</strong></p>">>),
              Html("<div class=quote>", Shown(framework, "example", NA), "</div>"),
              Ret(<<"</div>">>) >>)

\* lines 423-433
HtmlFrameworks(mm) ==
    Concat(<< HtmlHeader("Body Copy Frameworks"),
              ForEach(PyIter(PyGet(mm, "body_copy_frameworks", EmptyList).val), HtmlFramework) >>)

\* _generate_html, lines 294-439
GenerateHtml(mm) ==
    Concat(<< HtmlSummary(mm), HtmlKeyInsights(mm), HtmlPainPoints(mm), HtmlHooks(mm),
              HtmlFrameworks(mm), Ret(<<"</div></body></html>">>) >>)

\* json.dump that writes the keys of the map in the reverse order
GenerateJson_Reversed(mm) ==
    Ret(JsonDumpIndent(PyDict([i \in 1..Len(mm.ks) |-> mm.ks[Len(mm.ks) + 1 - i]], mm.o), 0))

\* json.dump(message_map, f, indent=2, ensure_ascii=False), line 130
GenerateJson(mm) == Ret(JsonDumpIndent(mm, 0))

(***************************************************************************)
(* The methods of MessageMapGenerator as steps of its caller               *)
(***************************************************************************)
GenEnded(op, r) ==
    [op |-> op, phase |-> IF r.raised THEN "raised" ELSE "returned",
     exc |-> IF r.raised THEN r.exc ELSE <<>>]

\* generate_message_map(analysis, ad_framework, raw_data, metadata), lines 22-59
GenerateMessageMapCall(a, f, raw_data, metadata) ==
    LET mm == GenerateMessageMap(a, f, raw_data, metadata, Stamp(clock)) IN
    /\ gen' = GenEnded("generate_message_map", mm)
    /\ message_map' = IF mm.raised THEN message_map ELSE mm.val
    /\ UNCHANGED <<clock, outputs>>

\* the file message_map_<timestamp>.<ext> written with the content; no file on an exception
SaveAs(ext, content) ==
    /\ gen' = GenEnded(ext, content)
    /\ outputs' = IF content.raised THEN outputs
                  ELSE [k \in DOMAIN outputs \cup {<<ext, clock>>} |->
                           IF k = <<ext, clock>> THEN content.val ELSE outputs[k]]
    /\ UNCHANGED <<clock, message_map>>

\* save_as_json that stamps the map with the time of the save before writing it
SaveAsJson_Restamp(mm) ==
    LET stamped == DictSet(mm, K("generated_at"), Stamp(clock)) IN
    /\ gen' = GenEnded("json", GenerateJson(stamped))
    /\ message_map' = stamped
    /\ outputs' = [k \in DOMAIN outputs \cup {<<"json", clock>>} |->
                      IF k = <<"json", clock>> THEN GenerateJson(stamped).val ELSE outputs[k]]
    /\ UNCHANGED clock

\* save_as_json, lines 108-133
SaveAsJson(mm) == SaveAs("json", GenerateJson(mm))
\* save_as_markdown, lines 135-162
SaveAsMarkdown(mm) == SaveAs("md", GenerateMarkdown(mm))
\* save_as_html, lines 265-292
SaveAsHtml(mm) == SaveAs("html", GenerateHtml(mm))

\* time passes
Tick ==
    /\ clock' = clock + 1
    /\ UNCHANGED <<gen, outputs>>
    /\ UNCHANGED mainVars
    /\ UNCHANGED analyzerVars

(***************************************************************************)
(* The connectors, as scrape_data sees them                                *)
(***************************************************************************)
RedditPost ==
    DictOf(<< <<"source", Str1("reddit")>>, <<"title", Str1("T1")>>, <<"text", Str1("B1")>>,
              <<"created_utc", Str1(DateOrder[1])>>,
              <<"comments", PyList(<< DictOf(<< <<"text", Str1("C1")>>,
                                               <<"created_utc", Str1(DateOrder[1])>> >>) >>)>> >>)
\* a link post: empty selftext, no comments
RedditLink ==
    DictOf(<< <<"source", Str1("reddit")>>, <<"title", Str1("T2")>>, <<"text", PyStr(<<>>)>>,
              <<"created_utc", Str1(DateOrder[1])>>, <<"comments", EmptyList>> >>)
AmazonReview ==
    DictOf(<< <<"source", Str1("amazon")>>, <<"title", Str1("T3")>>, <<"text", Str1("B3")>>,
              <<"date", Str1(DateOrder[3])>> >>)
\* a review whose title, body and date elements were not found
AmazonBlank ==
    DictOf(<< <<"source", Str1("amazon")>>, <<"title", PyStr(<<>>)>>, <<"text", PyStr(<<>>)>>,
              <<"date", PyStr(<<>>)>> >>)
YouTubeComment ==
    DictOf(<< <<"source", Str1("youtube")>>, <<"text", Str1("B4")>>,
              <<"published_at", Str1(DateOrder[2])>>,
              <<"replies", PyList(<< DictOf(<< <<"text", Str1("P1")>>,
                                              <<"published_at", Str1(DateOrder[2])>> >>) >>)>> >>)

\* what one connector call can end with: its records, or an exception
RedditOutcomes == {Raise(<<"reddit">>), Ret(<<>>), Ret(<<RedditPost, RedditLink>>)}
AmazonOutcomes == {Raise(<<"amazon">>), Ret(<<>>), Ret(<<AmazonReview>>), Ret(<<AmazonBlank>>)}
YouTubeOutcomes == {Raise(<<"youtube">>), Ret(<<>>), Ret(<<YouTubeComment>>)}

\* one source of scrape_data: the try block extends all_data, the handler does not
ScrapeSource(enabled, outcome) ==
    IF enabled /\ ~outcome.raised THEN outcome.val ELSE <<>>

\* what scrape_data prints about one source: the count scraped, or the failure
LogSource(name, enabled, outcome) ==
    IF ~enabled THEN <<>>
    ELSE IF outcome.raised THEN <<[source |-> name, ended |-> "failed", n |-> 0]>>
    ELSE <<[source |-> name, ended |-> "ok", n |-> Len(outcome.val)]>>

ScrapeLog(a, keys, r, z, y) ==
    LogSource("reddit", a.reddit /\ keys.reddit_client_id, r)
        \o LogSource("amazon", a.amazon, z)
        \o LogSource("youtube", a.youtube /\ keys.youtube, y)

\* main, lines 290-296: the warnings about sources asked for without their credentials
KeyWarnings(a, keys) ==
    (IF a.reddit /\ ~keys.reddit_client_id
     THEN <<[source |-> "reddit", ended |-> "skipped", n |-> 0]>> ELSE <<>>)
        \o (IF a.youtube /\ ~keys.youtube
            THEN <<[source |-> "youtube", ended |-> "skipped", n |-> 0]>> ELSE <<>>)

\* scrape_data that gives up at the first connector that raises
ScrapeData_StopAtFailure(a, keys, r, z, y) ==
    IF a.reddit /\ keys.reddit_client_id /\ r.raised THEN <<>>
    ELSE (IF a.reddit /\ keys.reddit_client_id THEN r.val ELSE <<>>)
             \o (IF a.amazon /\ z.raised THEN <<>>
                 ELSE (IF a.amazon THEN z.val ELSE <<>>)
                          \o (IF a.youtube /\ keys.youtube /\ ~y.raised THEN y.val ELSE <<>>))

\* scrape_data, lines 27-94
ScrapeData(a, keys, r, z, y) ==
    ScrapeSource(a.reddit /\ keys.reddit_client_id, r)
        \o ScrapeSource(a.amazon, z)
        \o ScrapeSource(a.youtube /\ keys.youtube, y)

(***************************************************************************)
(* main                                                                    *)
(***************************************************************************)
\* get_default_config()['output']
ConfigFormat == "markdown"
IncludeRawData == TRUE

\* the values argparse accepts for --format; "" is the option left out
Formats == {"", "json", "markdown", "html", "all"}

\* 'json' in output_format: substring test on the format string
FormatContains(output_format, name) == output_format = name

\* generate_output, lines 171-185: the files saved for the format
FilesFor(fmt) ==
    LET output_format == IF fmt # "" THEN fmt ELSE ConfigFormat IN
    {n \in {"json", "markdown", "html"} : FormatContains(output_format, n)}

Metadata(a) ==
    DictOf(<< <<"query", Str1("query")>>, <<"context", a.context>>,
              <<"sources", DictOf(<< <<"reddit", PyBool(a.reddit)>>,
                                     <<"amazon", PyBool(a.amazon)>>,
                                     <<"youtube", PyBool(a.youtube)>> >>)>> >>)

Now == Str1("2026-01-01T00:00:00")

Exit1 ==
    /\ pc' = "exited"
    /\ exit_status' = "exit1"

\* lines 274-277
Main_ValidateSources ==
    /\ pc = "validate_sources"
    /\ IF ~(args.reddit \/ args.amazon \/ args.youtube)
       THEN Exit1
       ELSE pc' = "validate_keys" /\ UNCHANGED exit_status
    /\ UNCHANGED <<args, api_keys, data, analysis, ad_framework, message_map, files, console>>
    /\ UNCHANGED analyzerVars
    /\ UNCHANGED generatorVars

\* main without the test of line 286
Main_ValidateKeys_NoCheck ==
    /\ pc = "validate_keys"
    /\ pc' = "scrape"
    /\ args' = [args EXCEPT !.reddit = @ /\ api_keys.reddit_client_id,
                            !.youtube = @ /\ api_keys.youtube]
    /\ console' = console \o KeyWarnings(args, api_keys)
    /\ UNCHANGED <<api_keys, data, analysis, ad_framework, message_map, files, exit_status>>
    /\ UNCHANGED analyzerVars
    /\ UNCHANGED generatorVars

\* lines 279-300
Main_ValidateKeys ==
    /\ pc = "validate_keys"
    /\ IF ~api_keys.anthropic
       THEN Exit1 /\ UNCHANGED <<args, console>>
       ELSE /\ pc' = "scrape"
            /\ args' = [args EXCEPT !.reddit = @ /\ api_keys.reddit_client_id,
                                    !.youtube = @ /\ api_keys.youtube]
            /\ console' = console \o KeyWarnings(args, api_keys)
            /\ UNCHANGED exit_status
    /\ UNCHANGED <<api_keys, data, analysis, ad_framework, message_map, files>>
    /\ UNCHANGED analyzerVars
    /\ UNCHANGED generatorVars

\* lines 302-309
Main_Scrape(r, z, y) ==
    /\ pc = "scrape"
    /\ data' = ScrapeData(args, api_keys, r, z, y)
    /\ console' = console \o ScrapeLog(args, api_keys, r, z, y)
    /\ IF data' = <<>>
       THEN Exit1
       ELSE pc' = "analyze" /\ UNCHANGED exit_status
    /\ UNCHANGED <<args, api_keys, analysis, ad_framework, message_map, files>>
    /\ UNCHANGED analyzerVars
    /\ UNCHANGED generatorVars

\* analyze_data, lines 97-136: the corpus, then the pattern pass is entered
Main_AnalyzePattern ==
    /\ pc = "analyze"
    /\ AnalyzeBatchCall(CorpusTexts(data), args.context)
    /\ pc' = "pattern_pass"
    /\ UNCHANGED <<args, api_keys, data, analysis, ad_framework, message_map, files, console, exit_status>>
    /\ UNCHANGED generatorVars

\* analyze_data that starts the framework pass without waiting for the pattern pass
Main_AnalyzeFramework_NoWait ==
    /\ pc = "pattern_pass"
    /\ analysis' = result
    /\ call' = [pass |-> "framework", phase |-> "waiting", inv |-> call.inv + 1, arg |-> result]
    /\ in_flight' = Append(in_flight, [inv |-> call.inv + 1, pass |-> "framework",
                                       prompt |-> BuildFrameworkPrompt(result)])
    /\ req_log' = Append(req_log, [inv |-> call.inv + 1, pass |-> "framework"])
    /\ response' = None
    /\ result' = None
    /\ pc' = "framework_pass"
    /\ UNCHANGED <<args, api_keys, data, ad_framework, message_map, files, console, exit_status>>
    /\ UNCHANGED generatorVars

\* analyze_data that skips the framework pass when the pattern pass returned an error
Main_AnalyzeFramework_SkipOnError ==
    /\ pc = "pattern_pass"
    /\ call.phase = "returned"
    /\ analysis' = result
    /\ IF result.t = "dict" /\ K("error") \in DOMAIN result.o
       THEN /\ call' = [call EXCEPT !.pass = "framework", !.arg = result]
            /\ result' = result
            /\ UNCHANGED <<in_flight, req_log, response>>
       ELSE FrameworkCall(result)
    /\ pc' = "framework_pass"
    /\ UNCHANGED <<args, api_keys, data, ad_framework, message_map, files, console, exit_status>>
    /\ UNCHANGED generatorVars

\* analyze_data, lines 132-140: the pattern pass returned, the framework pass is entered
Main_AnalyzeFramework ==
    /\ pc = "pattern_pass"
    /\ call.phase = "returned"
    /\ analysis' = result
    /\ FrameworkCall(result)
    /\ pc' = "framework_pass"
    /\ UNCHANGED <<args, api_keys, data, ad_framework, message_map, files, console, exit_status>>
    /\ UNCHANGED generatorVars

\* analyze_data, lines 140-145, and generate_output, lines 148-169
Main_GenerateMessageMap ==
    /\ pc = "framework_pass"
    /\ call.phase = "returned"
    /\ ad_framework' = result
    /\ LET mm == GenerateMessageMap(analysis, result,
                                    IF IncludeRawData THEN data ELSE <<>>,
                                    Metadata(args), Now) IN
       IF mm.raised
       THEN /\ pc' = "exited"
            /\ exit_status' = "exception"
            /\ UNCHANGED message_map
       ELSE /\ message_map' = mm.val
            /\ pc' = "save"
            /\ UNCHANGED exit_status
    /\ UNCHANGED <<args, api_keys, data, analysis, files, console>>
    /\ UNCHANGED analyzerVars
    /\ UNCHANGED generatorVars

\* generate_output, lines 171-194, and main, line 317
Main_SaveFiles ==
    /\ pc = "save"
    /\ files' = files \cup FilesFor(args.format)
    /\ pc' = "done"
    /\ exit_status' = "ok"
    /\ UNCHANGED <<args, api_keys, data, analysis, ad_framework, message_map, console>>
    /\ UNCHANGED analyzerVars
    /\ UNCHANGED generatorVars

(***************************************************************************)
(* What the LLM can answer                                                 *)
(***************************************************************************)
MaxRespLen == 3
MaxCalls == 2
MaxTexts == 102
MaxAssign == 2
MaxItems == 3
MaxEntries == 2
MaxRecords == 3
MaxClock == 2
MaxSaves == 3

SeqsUpTo(S, n) == UNION {[1..m -> S] : m \in 0..n}

NotJson == <<"not", "json">>

SampleAnalysis ==
    DictOf(<< <<"pain_points", PyList(<< Dict2("pain_point", Str1("A"), "severity", Str1("critical")),
                                         Dict2("pain_point", Str1("B"), "severity", Str1("Major")) >>)>>,
              <<"emotional_patterns", EmptyList>>,
              <<"desire_triggers", PyList(<< Dict2("desire", Str1("X"), "intensity", Str1("high")) >>)>>,
              <<"key_insights", PyList(<< Str1("I1") >>)>> >>)

SampleFramework ==
    DictOf(<< <<"hooks", Dict1("problem_aware", PyList(<< Str1("H1") >>))>>,
              <<"call_to_action_suggestions", PyList(<< Str1("CTA1") >>)>>,
              <<"objection_handlers", PyList(<< Dict2("objection", Str1("O1"), "response", Str1("R1")) >>)>> >>)

\* valid JSON that is not the schema of the prompt
OffSchema ==
    {PyList(<<PyInt(1)>>), PyInt(7), Str1("text"), EmptyDict, Dict1("foo", PyInt(7)),
     Dict1("pain_points", PyList(<< Dict1("severity", Str1("major")) >>))}

Failures == {ClientError(m) : m \in TransportFailures}

\* every text of at most MaxRespLen atoms over the alphabet
Alphabet == {"{", "}", "[", "]", ",", ":", "7", Q, "not"}
ShortTexts == SeqsUpTo(Alphabet, MaxRespLen)

LongTexts == {NotJson, JsonDumps(SampleAnalysis), JsonDumps(SampleFramework)}
                 \cup {JsonDumps(v) : v \in OffSchema}

WideOutcomes == {Message(<<x>>) : x \in ShortTexts \cup LongTexts} \cup {Message(<<>>)} \cup Failures

PatternOutcomes ==
    {Message(<<x>>) : x \in {NotJson, JsonDumps(SampleAnalysis)} \cup {JsonDumps(v) : v \in OffSchema}}
        \cup Failures

FrameworkOutcomes ==
    {Message(<<x>>) : x \in {NotJson, JsonDumps(SampleFramework), JsonDumps(PyInt(7))}}
        \cup Failures

(***************************************************************************)
(* Spec: one run of main                                                   *)
(***************************************************************************)
Contexts == {PyStr(<<>>), Str1("B2B SaaS")}

Init ==
    /\ pc = "validate_sources"
    /\ args \in [reddit : BOOLEAN, amazon : BOOLEAN, youtube : BOOLEAN,
                 format : Formats, context : {Str1("B2B SaaS")}]
    /\ api_keys \in [anthropic : BOOLEAN, reddit_client_id : BOOLEAN, youtube : BOOLEAN]
    /\ data = <<>>
    /\ analysis = None
    /\ ad_framework = None
    /\ message_map = None
    /\ files = {}
    /\ exit_status = "running"
    /\ console = <<>>
    /\ AnalyzerInit
    /\ GeneratorInit

Scrape == \E r \in RedditOutcomes, z \in AmazonOutcomes, y \in YouTubeOutcomes : Main_Scrape(r, z, y)
\* the LLM API answers the request in flight
Waiting(pass) == call.pass = pass /\ call.phase = "waiting"
PatternReply == Waiting("pattern") /\ \E o \in PatternOutcomes : AnalyzeBatchReturn(o)
FrameworkReply == Waiting("framework") /\ \E o \in FrameworkOutcomes : FrameworkReturn(o)

Next ==
    \/ Main_ValidateSources
    \/ Main_ValidateKeys
    \/ Scrape
    \/ Main_AnalyzePattern
    \/ PatternReply
    \/ Main_AnalyzeFramework
    \/ FrameworkReply
    \/ Main_GenerateMessageMap
    \/ Main_SaveFiles

Spec == Init /\ [][Next]_vars

(***************************************************************************)
(* SpecAnalyzer: a caller that uses a ClaudeAnalyzer directly, one call    *)
(* at a time                                                               *)
(***************************************************************************)
NoRun ==
    /\ pc = "library"
    /\ args = [reddit |-> FALSE, amazon |-> FALSE, youtube |-> FALSE,
               format |-> "", context |-> PyStr(<<>>)]
    /\ api_keys = [anthropic |-> TRUE, reddit_client_id |-> FALSE, youtube |-> FALSE]
    /\ data = <<>>
    /\ analysis = None
    /\ ad_framework = None
    /\ message_map = None
    /\ files = {}
    /\ exit_status = "running"
    /\ console = <<>>

InitAnalyzer == NoRun /\ AnalyzerInit /\ GeneratorInit

\* item number i of a list handed to categorize_by_awareness
Item(i, withText) ==
    IF withText THEN Dict2("id", PyInt(i), "text", Str1(ToString(i))) ELSE Dict1("id", PyInt(i))
DataOf(n, missing) == [i \in 1..n |-> Item(i, i \notin missing)]

CallerTexts == {<<>>, <<Str1("B1"), Str1("T1")>>}
CallerAnalyses == {SampleAnalysis, Dict1("raw_analysis", PyStr(NotJson)),
                   Dict1("error", PyStr(<<"timeout">>)), PyList(<<PyInt(1)>>)}
CallerData == {DataOf(0, {}), DataOf(2, {}), DataOf(2, {1, 2})}

Entry(idx, stage) == Dict2("text_index", PyInt(idx), "stage", Str1(stage))
CatText(es) == JsonDumps(Dict1("categorized", PyList(es)))

NarrowCatOutcomes ==
    {Message(<<x>>) : x \in {NotJson, CatText(<<Entry(0, "unaware"), Entry(1, "bogus")>>)}}
        \cup {ClientError(<<"timeout">>)}

Caller_AnalyzeBatch ==
    /\ call.inv < MaxCalls
    /\ \E tx \in CallerTexts : AnalyzeBatchCall(tx, PyStr(<<>>))
    /\ UNCHANGED mainVars
    /\ UNCHANGED generatorVars

Caller_Framework ==
    /\ call.inv < MaxCalls
    /\ \E a \in CallerAnalyses : FrameworkCall(a)
    /\ UNCHANGED mainVars
    /\ UNCHANGED generatorVars

Caller_Categorize ==
    /\ call.inv < MaxCalls
    /\ \E d \in CallerData : CategorizeCall(d)
    /\ UNCHANGED mainVars
    /\ UNCHANGED generatorVars

WideReply == Waiting("pattern") /\ \E o \in WideOutcomes : AnalyzeBatchReturn(o)
CategorizeReply == Waiting("categorize") /\ \E o \in NarrowCatOutcomes : CategorizeReturn(o)

NextAnalyzer ==
    \/ Caller_AnalyzeBatch
    \/ Caller_Framework
    \/ Caller_Categorize
    \/ WideReply
    \/ FrameworkReply
    \/ CategorizeReply

SpecAnalyzer == InitAnalyzer /\ [][NextAnalyzer]_vars

(***************************************************************************)
(* SpecPrompt: analyze_batch called with corpora around the 100-unit cap   *)
(***************************************************************************)
\* n one-atom units, all distinct
UnitsFrom(n, base) == [i \in 1..n |-> Str1(ToString(base + i))]
PromptTexts == {UnitsFrom(n, b) : n \in 0..MaxTexts, b \in {0, 1000}}

Prompt_Call ==
    /\ call.inv = 0
    /\ \E tx \in PromptTexts, c \in Contexts : AnalyzeBatchCall(tx, c)
    /\ UNCHANGED mainVars
    /\ UNCHANGED generatorVars

NextPrompt ==
    \/ Prompt_Call
    \/ PatternReply

SpecPrompt == InitAnalyzer /\ [][NextPrompt]_vars

(***************************************************************************)
(* SpecCategorize: categorize_by_awareness called once                     *)
(***************************************************************************)
CatData ==
    {DataOf(n, m) : n \in 0..MaxItems, m \in SUBSET (1..MaxItems)}
        \cup {DataOf(CATEGORIZE_LIMIT, {}), DataOf(CATEGORIZE_LIMIT + 1, {})}

Entries ==
    {Entry(i, st) : i \in {-1, 0, 2, 7, 50}, st \in {"most_aware", "bogus"}}
        \cup {Dict1("stage", Str1("unaware")),
              Dict2("text_index", Str1("0"), "stage", Str1("unaware"))}

CatOutcomes ==
    {Message(<<CatText(es)>>) : es \in SeqsUpTo(Entries, MaxAssign)}
        \cup {Message(<<x>>) : x \in {NotJson, JsonDumps(EmptyDict), JsonDumps(EmptyList)}}
        \cup {Message(<<>>), ClientError(<<"timeout">>)}

Cat_Call ==
    /\ call.inv = 0
    /\ \E d \in CatData : CategorizeCall(d)
    /\ UNCHANGED mainVars
    /\ UNCHANGED generatorVars

Cat_Reply == Waiting("categorize") /\ \E o \in CatOutcomes : CategorizeReturn(o)

NextCategorize ==
    \/ Cat_Call
    \/ Cat_Reply

SpecCategorize == InitAnalyzer /\ [][NextCategorize]_vars

(***************************************************************************)
(* SpecMalformed: categorize_by_awareness answered with assignment lists   *)
(* that hold malformed entries                                             *)
(***************************************************************************)
IndexEntry(idx, stage) == Dict2("text_index", idx, "stage", stage)

MalformedEntries ==
    {Entry(0, "unaware"), Entry(1, "most_aware"),
     Dict1("stage", Str1("unaware")), Dict1("text_index", PyInt(0)),
     IndexEntry(Str1("0"), Str1("unaware")), IndexEntry(None, Str1("bogus")),
     IndexEntry(PyFloat("7.5"), Str1("unaware")), IndexEntry(PyFloat("0.5"), Str1("unaware")),
     IndexEntry(PyBool(TRUE), Str1("unaware")), Str1("x"),
     IndexEntry(PyInt(1), PyList(<<Str1("unaware")>>)),
     IndexEntry(PyInt(7), PyList(<<Str1("unaware")>>))}

MalformedOutcomes ==
    {Message(<<CatText(es)>>) : es \in SeqsUpTo(MalformedEntries, MaxAssign)}
        \cup {Message(<<x>>) : x \in {NotJson, JsonDumps(PyInt(7)), JsonDumps(Dict1("categorized", PyInt(7)))}}
        \cup {Message(<<>>), ClientError(<<"timeout">>)}

Malformed_Call ==
    /\ call.inv = 0
    /\ \E d \in {DataOf(2, {}), DataOf(3, {2})} : CategorizeCall(d)
    /\ UNCHANGED mainVars
    /\ UNCHANGED generatorVars

Malformed_Reply == Waiting("categorize") /\ \E o \in MalformedOutcomes : CategorizeReturn(o)

NextMalformed ==
    \/ Malformed_Call
    \/ Malformed_Reply

SpecMalformed == InitAnalyzer /\ [][NextMalformed]_vars

(***************************************************************************)
(* SpecAssemble: a caller of generate_message_map, once, with analyses,    *)
(* frameworks and raw records of every shape                               *)
(***************************************************************************)
PainEntry(l) == Dict2("pain_point", Str1(l), "severity", Str1("major"))
EmotionEntry(l) == Dict2("emotion", Str1(l), "frequency", Str1("high"))
DesireEntry(l) == Dict2("desire", Str1(l), "intensity", Str1("high"))

\* the lists of up to MaxEntries entries with the labels
EntryLists(Mk(_), labels) ==
    {PyList([i \in 1..Len(ls) |-> Mk(ls[i])]) : ls \in SeqsUpTo(labels, MaxEntries)}

\* structured analyses: every combination of the three lists
WideAnalyses ==
    {DictOf(<< <<"pain_points", p>>, <<"emotional_patterns", e>>, <<"desire_triggers", d>> >>) :
        p \in EntryLists(PainEntry, {"A", "B"}),
        e \in EntryLists(EmotionEntry, {"frustration"}),
        d \in EntryLists(DesireEntry, {"X", "Y"})}

\* the Raw and Error variants, absent fields, and values off the schema of the prompt
VariantAnalyses ==
    {SampleAnalysis, EmptyDict,
     Dict1("raw_analysis", PyStr(NotJson)), Dict1("error", Str1("timeout")),
     Dict1("pain_points", PyList(<< PainEntry("A") >>)),
     Dict1("pain_points", PyList(<< Dict1("severity", Str1("major")) >>)),
     Dict1("emotional_patterns", PyList(<< Dict1("frequency", Str1("high")) >>)),
     Dict1("desire_triggers", PyList(<< Dict1("intensity", Str1("high")) >>)),
     Dict1("pain_points", PyList(<< Str1("A"), Str1("B") >>)),
     Dict1("pain_points", Str1("A")), Dict1("pain_points", None),
     Dict2("pain_points", PyStr(<<>>), "awareness_stages", Dict1("unaware", EmptyDict)),
     PyList(<<PyInt(1)>>)}

AssembleFrameworks ==
    {SampleFramework, EmptyDict, Dict1("raw_framework", PyStr(NotJson)),
     Dict1("error", Str1("timeout")), Dict1("hooks", EmptyDict), PyInt(7)}

\* a field of a record: left out, empty, or the text
Field(k, v) ==
    IF v = "absent" THEN <<>> ELSE << <<k, PyStr(IF v = "" THEN <<>> ELSE <<v>>)>> >>

Record(source, created_utc, published_at, date) ==
    DictOf(Field("source", source) \o << <<"text", Str1("B")>> >>
               \o Field("created_utc", created_utc) \o Field("published_at", published_at)
               \o Field("date", date))

\* records that differ in their source tag
TaggedRecords == {Record(src, "absent", "absent", "absent") : src \in {"absent", "forum", "retail"}}

\* records that differ in the timestamp fields they carry
TimestampChoices ==
    {<<"absent", "absent", "absent">>, <<DateOrder[1], "absent", "absent">>,
     <<"absent", DateOrder[2], "absent">>, <<"absent", "absent", DateOrder[3]>>,
     <<DateOrder[3], "absent", DateOrder[1]>>, <<"absent", DateOrder[2], DateOrder[1]>>,
     <<"absent", "absent", "">>, <<"", DateOrder[2], "absent">>}
DatedRecords == {Record("forum", c[1], c[2], c[3]) : c \in TimestampChoices}

SampleMetadata == DictOf(<< <<"query", Str1("query")>>, <<"context", None>> >>)

\* what the caller hands to generate_message_map
AssembleInputs ==
    [a : WideAnalyses \cup VariantAnalyses, f : {SampleFramework}, raw_data : {<<>>},
     metadata : {None}]
    \cup [a : {SampleAnalysis}, f : AssembleFrameworks, raw_data : {<<>>, <<RedditPost>>},
          metadata : {None, SampleMetadata}]
    \cup [a : {SampleAnalysis}, f : {SampleFramework},
          raw_data : SeqsUpTo(TaggedRecords, MaxRecords) \cup SeqsUpTo(DatedRecords, MaxRecords),
          metadata : {None}]

\* the one call: its arguments are kept in analysis, ad_framework and data
Caller_Generate(in) ==
    /\ gen = IdleGen
    /\ analysis' = in.a
    /\ ad_framework' = in.f
    /\ data' = in.raw_data
    /\ GenerateMessageMapCall(in.a, in.f, in.raw_data, in.metadata)
    /\ UNCHANGED <<pc, args, api_keys, files, console, exit_status>>
    /\ UNCHANGED analyzerVars

Assemble_Generate == \E in \in AssembleInputs : Caller_Generate(in)
Assemble_Tick == gen = IdleGen /\ clock < MaxClock /\ Tick

NextAssemble ==
    \/ Assemble_Generate
    \/ Assemble_Tick

SpecAssemble == InitAnalyzer /\ [][NextAssemble]_vars

(***************************************************************************)
(* SpecCorpus: analyze_data on records of every shape, up to the end of    *)
(* the pattern pass                                                        *)
(***************************************************************************)
\* a comment or a reply with the text, "" for an empty one
Nested(text) == Dict2("text", PyStr(IF text = "" THEN <<>> ELSE <<text>>), "score", PyInt(1))

CommentChoices ==
    {<<>>, << <<"comments", EmptyList>> >>,
     << <<"comments", PyList(<<Nested("C1")>>)>> >>,
     << <<"comments", PyList(<<Nested("")>>)>> >>,
     << <<"comments", PyList(<<Nested("C1"), Nested(""), Nested("C2")>>)>> >>,
     << <<"comments", PyList(<<Dict1("score", PyInt(1)), Str1("C3")>>)>> >>}
ReplyChoices ==
    {<<>>, << <<"replies", PyList(<<Nested("P1")>>)>> >>,
     << <<"replies", PyList(<<Nested(""), Nested("P1")>>)>> >>}

\* the records: each of text and title left out, empty or filled
CorpusRecords ==
    {DictOf(<< <<"source", Str1("forum")>> >> \o Field("text", b) \o Field("title", t) \o c \o r) :
        b \in {"absent", "", "B1"}, t \in {"absent", "", "T1", "B1"},
        c \in CommentChoices, r \in ReplyChoices}

\* records told apart by their texts, for the order of the records
OrderedRecords ==
    {DictOf(<< <<"text", Str1("B1")>>, <<"title", Str1("T1")>> >>),
     DictOf(<< <<"title", Str1("T2")>>, <<"comments", PyList(<<Nested("C2")>>)>> >>),
     DictOf(<< <<"text", Str1("B3")>>, <<"replies", PyList(<<Nested("")>>)>> >>)}

CorpusData ==
    {<<rec>> : rec \in CorpusRecords} \cup (SeqsUpTo(OrderedRecords, MaxRecords) \ {<<>>})

InitCorpus ==
    /\ pc = "analyze"
    /\ args = [reddit |-> TRUE, amazon |-> TRUE, youtube |-> TRUE,
               format |-> "", context |-> PyStr(<<>>)]
    /\ api_keys = [anthropic |-> TRUE, reddit_client_id |-> TRUE, youtube |-> TRUE]
    /\ data \in CorpusData
    /\ analysis = None
    /\ ad_framework = None
    /\ message_map = None
    /\ files = {}
    /\ exit_status = "running"
    /\ console = <<>>
    /\ AnalyzerInit
    /\ GeneratorInit

Corpus_Reply ==
    Waiting("pattern") /\ \E o \in {Message(<<NotJson>>)} \cup Failures : AnalyzeBatchReturn(o)

NextCorpus ==
    \/ Main_AnalyzePattern
    \/ Corpus_Reply

SpecCorpus == InitCorpus /\ [][NextCorpus]_vars

(***************************************************************************)
(* SpecRender: a caller that builds one MessageMap and saves it, in any    *)
(* encoding, any number of times, while time passes                        *)
(***************************************************************************)
\* an analysis and a framework with an entry in every section
RichAnalysis ==
    DictOf(<< <<"emotional_patterns",
                PyList(<< DictOf(<< <<"emotion", Str1("frustration")>>, <<"frequency", Str1("high")>>,
                                    <<"example_quotes", PyList(<<Str1("Q1")>>)>> >>) >>)>>,
              <<"pain_points",
                PyList(<< DictOf(<< <<"pain_point", Str1("A")>>, <<"severity", Str1("Major")>>,
                                    <<"customer_quotes", PyList(<<Str1("Q2")>>)>> >>) >>)>>,
              <<"awareness_stages",
                Dict1("problem_aware", Dict2("indicators", PyList(<<Str1("K1")>>),
                                             "quotes", PyList(<<Str1("Q3")>>)))>>,
              <<"key_insights", PyList(<<Str1("I1"), Str1("I2")>>)>> >>)

RichFramework ==
    DictOf(<< <<"hooks", Dict1("problem_aware", PyList(<<Str1("H1")>>))>>,
              <<"body_copy_frameworks",
                PyList(<< DictOf(<< <<"framework_name", Str1("PAS")>>,
                                    <<"target_awareness", Str1("problem_aware")>>,
                                    <<"example", Str1("E1")>> >>) >>)>>,
              <<"call_to_action_suggestions", PyList(<<Str1("CTA1")>>)>>,
              <<"objection_handlers",
                PyList(<< Dict2("objection", Str1("O1"), "response", Str1("R1")) >>)>> >>)

RenderAnalyses ==
    {RichAnalysis, EmptyDict, Dict1("raw_analysis", PyStr(NotJson)), Dict1("key_insights", PyInt(7))}
RenderFrameworks == {RichFramework, EmptyDict, Dict1("hooks", PyList(<<Str1("H1")>>))}

RenderInputs ==
    [a : RenderAnalyses, f : RenderFrameworks, raw_data : {<<>>}, metadata : {None}]
    \cup [a : {RichAnalysis}, f : {RichFramework},
          raw_data : {<<RedditPost, AmazonBlank>>}, metadata : {SampleMetadata}]

\* the caller holds a MessageMap and has room for one more file
CanSave == message_map # None /\ Cardinality(DOMAIN outputs) < MaxSaves

Render_Generate == \E in \in RenderInputs : Caller_Generate(in)

Render_SaveJson ==
    /\ CanSave
    /\ SaveAsJson(message_map)
    /\ UNCHANGED <<pc, args, api_keys, data, analysis, ad_framework, files, console, exit_status>>
    /\ UNCHANGED analyzerVars

Render_SaveMarkdown ==
    /\ CanSave
    /\ SaveAsMarkdown(message_map)
    /\ UNCHANGED <<pc, args, api_keys, data, analysis, ad_framework, files, console, exit_status>>
    /\ UNCHANGED analyzerVars

Render_SaveHtml ==
    /\ CanSave
    /\ SaveAsHtml(message_map)
    /\ UNCHANGED <<pc, args, api_keys, data, analysis, ad_framework, files, console, exit_status>>
    /\ UNCHANGED analyzerVars

Render_Tick == clock < MaxClock /\ Tick

NextRender ==
    \/ Render_Generate
    \/ Render_SaveJson
    \/ Render_SaveMarkdown
    \/ Render_SaveHtml
    \/ Render_Tick

SpecRender == InitAnalyzer /\ [][NextRender]_vars

(***************************************************************************)
(* Properties                                                              *)
(***************************************************************************)
\* the invocation of the pass has ended, and its client call answered with a text
Ended(pass) == call.pass = pass /\ call.phase \in {"returned", "raised"}
GotText == response # None /\ response.kind = "message" /\ Len(response.content) > 0
GotFailure == response # None /\ response.kind = "raise"
Raw(text) == Dict1("raw_analysis", PyStr(text))

\* C1: a pattern-pass response text that is not parseable as JSON is returned as
\* {raw_analysis: text}, "not json" as {raw_analysis: "not json"}, and
\* analyze_batch does not raise.
PatternDegradeLaw ==
    (Ended("pattern") /\ GotText) =>
        /\ ~JsonLoads(response.content[1]).ok =>
               (call.phase = "returned" /\ result = Raw(response.content[1]))
        /\ response.content[1] = <<"not", "json">> =>
               result = [t |-> "dict", ks |-> << <<"raw_analysis">> >>,
                         o |-> [k \in {<<"raw_analysis">>} |->
                            [t |-> "str", s |-> <<"not", "json">>]]]

WitnessPatternDegrade ==
    /\ Ended("pattern") /\ GotText
    /\ response.content[1] = NotJson
    /\ call.phase = "returned"
    /\ result = Raw(NotJson)

ExpectedKeys ==
    {K("emotional_patterns"), K("pain_points"), K("desire_triggers"),
     K("awareness_stages"), K("language_patterns"), K("key_insights")}

\* a JSON array, a JSON scalar, or an object with none of the expected keys
OffShape(v) == v.t # "dict" \/ DOMAIN v.o \cap ExpectedKeys = {}

\* C2: a pattern-pass response that is valid JSON without the expected schema
\* shape is returned as {raw_analysis: text}, not as the parsed value.
SchemaViolationWrapped ==
    (Ended("pattern") /\ GotText /\ JsonLoads(response.content[1]).ok
        /\ OffShape(JsonLoads(response.content[1]).val)) =>
            result = Raw(response.content[1])

\* C3: when the client call of the pattern pass or of the ad-framework pass
\* fails, the pass returns {error: message} and does not raise.
TransportFailureLaw ==
    (call.pass \in {"pattern", "framework"} /\ call.phase \in {"returned", "raised"}
        /\ GotFailure) =>
            (call.phase = "returned" /\ result = Dict1("error", PyStr(response.msg)))

WitnessTransportFailure ==
    /\ Ended("framework")
    /\ response = ClientError(<<"rate_limit_error">>)
    /\ result = Dict1("error", PyStr(<<"rate_limit_error">>))
    /\ Len(req_log) = 2
    /\ req_log[1].pass = "pattern"

\* C7: every invocation of a pass sends at most one request, whatever the
\* request ends with.
AtMostOneRequestPerInvocation ==
    /\ \A i, j \in 1..Len(req_log) : req_log[i].inv = req_log[j].inv => i = j
    /\ Len(req_log) <= call.inv

WitnessNoRetry ==
    /\ Ended("pattern")
    /\ GotFailure
    /\ call.inv = 2
    /\ Cardinality({i \in 1..Len(req_log) : req_log[i].inv = call.inv}) = 1
    /\ in_flight = <<>>

\* C4: a run whose preconditions hold never ends with an exception: whatever
\* the two passes return, the MessageMap is assembled and the run completes;
\* only a failed precondition ends the run early.
OnlyPreconditionFailuresAbort ==
    /\ exit_status # "exception"
    /\ pc = "exited" => (exit_status = "exit1" /\ (~api_keys.anthropic \/ data = <<>>))
    /\ pc = "done" => message_map # None

\* C5: with the LLM credential missing, or with no scraped record, the run
\* ends with sys.exit(1) before analyze_data: no request is sent, no
\* MessageMap is assembled, no file is written.
FatalPrecondition ==
    /\ ~api_keys.anthropic => pc \in {"validate_sources", "validate_keys", "exited"}
    /\ (pc \notin {"validate_sources", "validate_keys", "scrape"} /\ data = <<>>) => pc = "exited"
    /\ (pc = "exited" /\ (~api_keys.anthropic \/ data = <<>>)) =>
           /\ exit_status = "exit1"
           /\ req_log = <<>>
           /\ in_flight = <<>>
           /\ message_map = None
           /\ files = {}

WitnessZeroRecords ==
    /\ pc = "exited"
    /\ api_keys.anthropic
    /\ args.amazon
    /\ data = <<>>
    /\ exit_status = "exit1"
    /\ req_log = <<>>

\* C6: at most one request is in flight; the framework request is sent only
\* after the pattern pass returned, the MessageMap is assembled only after
\* the framework pass returned, and files are written only after assembly.
SequentialStages ==
    /\ Len(in_flight) <= 1
    /\ (\E i \in 1..Len(req_log) : req_log[i].pass = "framework") =>
           /\ analysis # None
           /\ req_log[1].pass = "pattern"
           /\ \A i \in 1..Len(in_flight) : in_flight[i].pass # "pattern"
    /\ message_map # None => (ad_framework # None /\ in_flight = <<>> /\ Len(req_log) = 2)
    /\ (files # {} \/ pc = "done") => message_map # None

WitnessSequentialRun ==
    /\ pc = "done"
    /\ files # {}
    /\ Len(req_log) = 2
    /\ req_log[2].pass = "framework"

\* the units of a joined text: the runs of atoms between separators
UnitsOf(c) ==
    IF c = <<>> THEN <<>>
    ELSE LET seps == {j \in 1..Len(c) : c[j] = "\n\n---\n\n"}
             cut(k) == IF k = 0 THEN 0
                       ELSE IF k = Cardinality(seps) + 1 THEN Len(c) + 1
                       ELSE CHOOSE j \in seps : Cardinality({x \in seps : x < j}) = k - 1 IN
         [k \in 1..(Cardinality(seps) + 1) |-> SubSeq(c, cut(k - 1) + 1, cut(k) - 1)]

\* C8: the prompt of the pattern pass holds exactly the first min(n, 100)
\* text units, in order, joined by the separator; no unit at position 100 or
\* later is in it.
TruncationBoundary ==
    \A q \in 1..Len(in_flight) :
        in_flight[q].pass = "pattern" =>
            LET texts == call.arg.a
                c == in_flight[q].prompt.combined_texts
                m == IF Len(texts) < 100 THEN Len(texts) ELSE 100 IN
            /\ UnitsOf(c) = [i \in 1..m |-> texts[i].s]
            /\ \A i \in 101..Len(texts) : \A j \in 1..Len(c) : c[j] # texts[i].s[1]

WitnessTruncated ==
    /\ Len(in_flight) = 1
    /\ in_flight[1].pass = "pattern"
    /\ Len(call.arg.a) > 100
    /\ Len(UnitsOf(in_flight[1].prompt.combined_texts)) = 100

\* the assignments of the categorization response, when it has the expected shape
ParsedAssignments ==
    IF ~GotText THEN <<>>
    ELSE LET p == JsonLoads(response.content[1]) IN
         IF p.ok /\ p.val.t = "dict" /\ HasKey(p.val, "categorized")
                 /\ p.val.o[K("categorized")].t = "list"
         THEN p.val.o[K("categorized")].a ELSE <<>>

RECURSIVE TotalBucketed(_, _)
\* the number of items in the buckets of the keys
TotalBucketed(r, keys) ==
    IF keys = {} THEN 0
    ELSE LET k == CHOOSE x \in keys : TRUE IN Len(r.o[k].a) + TotalBucketed(r, keys \ {k})

FiveKeys ==
    {<<"unaware">>, <<"problem_aware">>, <<"solution_aware">>, <<"product_aware">>, <<"most_aware">>}

IntIndex(e) == e.t = "dict" /\ HasKey(e, "text_index") /\ e.o[K("text_index")].t = "int"
StrStage(e) == e.t = "dict" /\ HasKey(e, "stage") /\ e.o[K("stage")].t = "str"

\* the index addresses one of the sent items
ValidIndex(e, sent) ==
    IntIndex(e) /\ e.o[K("text_index")].n >= 0 /\ e.o[K("text_index")].n < sent
ValidStage(e) == StrStage(e) /\ e.o[K("stage")].s \in FiveKeys

CountOf(entries, P(_)) == Cardinality({i \in 1..Len(entries) : P(entries[i])})

\* C9: an assignment whose text_index is not a 0-based index of a sent item
\* adds no item to any bucket.
OutOfRangeIndexDropped ==
    (Ended("categorize") /\ call.phase = "returned" /\ result # EmptyDict) =>
        LET sent == Len(SentTexts(call.arg.a)) IN
        TotalBucketed(result, DOMAIN result.o)
            <= CountOf(ParsedAssignments, LAMBDA e : ValidIndex(e, sent))

\* C10: an assignment whose stage is not one of the five keys is dropped; a
\* successful pass returns exactly the five keys, and no result has another key.
StageLabelCheck ==
    (Ended("categorize") /\ call.phase = "returned") =>
        /\ result = EmptyDict \/ DOMAIN result.o = FiveKeys
        /\ result # EmptyDict =>
               TotalBucketed(result, DOMAIN result.o) <= CountOf(ParsedAssignments, ValidStage)
        /\ (GotText /\ JsonLoads(response.content[1]).ok
                /\ JsonLoads(response.content[1]).val.t = "dict"
                /\ (HasKey(JsonLoads(response.content[1]).val, "categorized") =>
                        /\ ParsedAssignments # <<>>
                        /\ \A i \in 1..Len(ParsedAssignments) :
                               /\ IntIndex(ParsedAssignments[i])
                               /\ StrStage(ParsedAssignments[i])
                               /\ ParsedAssignments[i].o[K("text_index")].n >= -Len(call.arg.a)))
               => DOMAIN result.o = FiveKeys

WitnessStageDropped ==
    /\ Ended("categorize")
    /\ call.phase = "returned"
    /\ DOMAIN result.o = FiveKeys
    /\ Len(ParsedAssignments) = 2
    /\ ~ValidStage(ParsedAssignments[1])
    /\ ValidIndex(ParsedAssignments[1], Len(SentTexts(call.arg.a)))
    /\ TotalBucketed(result, DOMAIN result.o) = 1

\* generate_message_map has been called and has ended
Generated == gen.op = "generate_message_map"
Assembled == Generated /\ gen.phase = "returned"

\* where each field of the MessageMap comes from, and what it is when absent
PassThroughFields ==
    << <<"emotional_intelligence", "analysis", "emotional_patterns", EmptyList>>,
       <<"pain_points", "analysis", "pain_points", EmptyList>>,
       <<"desire_triggers", "analysis", "desire_triggers", EmptyList>>,
       <<"awareness_stages", "analysis", "awareness_stages", EmptyDict>>,
       <<"language_patterns", "analysis", "language_patterns", EmptyDict>>,
       <<"ad_ready_hooks", "framework", "hooks", EmptyDict>>,
       <<"body_copy_frameworks", "framework", "body_copy_frameworks", EmptyList>>,
       <<"headline_formulas", "framework", "headline_formulas", EmptyList>>,
       <<"call_to_actions", "framework", "call_to_action_suggestions", EmptyList>>,
       <<"objection_handlers", "framework", "objection_handlers", EmptyList>>,
       <<"key_insights", "analysis", "key_insights", EmptyList>> >>

PassedThrough(fld) ==
    LET from == IF fld[2] = "analysis" THEN analysis ELSE ad_framework IN
    /\ K(fld[1]) \in DOMAIN message_map.o
    /\ message_map.o[K(fld[1])] = IF HasKey(from, fld[3]) THEN from.o[K(fld[3])] ELSE fld[4]

\* C11: generate_message_map returns a MessageMap for any analysis mapping and any
\* ad-framework mapping, never raising; every field present in the inputs is copied
\* through unchanged, every absent field is an empty list or an empty map.
MergeNeverFails ==
    (Generated /\ analysis.t = "dict" /\ ad_framework.t = "dict") =>
        /\ gen.phase = "returned"
        /\ \A i \in 1..Len(PassThroughFields) : PassedThrough(PassThroughFields[i])

\* the three sequences the summary is derived from
SummaryFields ==
    << <<"pain_points", "pain_point", "top_pain_point", "total_pain_points">>,
       <<"emotional_patterns", "emotion", "dominant_emotion", "total_emotional_patterns">>,
       <<"desire_triggers", "desire", "primary_desire", "total_desire_triggers">> >>

ExecutiveSummary == message_map.o[K("executive_summary")]
SequenceOf(field) == IF HasKey(analysis, field) THEN analysis.o[K(field)] ELSE EmptyList
LengthOf(seq) == IF seq.t = "list" THEN Len(seq.a) ELSE 0

SummaryDerived(fld) ==
    LET seq == SequenceOf(fld[1]) IN
    /\ ExecutiveSummary.o[K(fld[3])] =
           IF LengthOf(seq) = 0 THEN Str1("N/A") ELSE seq.a[1].o[K(fld[2])]
    /\ ExecutiveSummary.o[K(fld[4])] = PyInt(LengthOf(seq))

\* pain points [A, B], no emotional pattern, desires [X]
SummaryExample ==
    /\ analysis.t = "dict"
    /\ SequenceOf("pain_points") = PyList(<<PainEntry("A"), PainEntry("B")>>)
    /\ SequenceOf("emotional_patterns") = EmptyList
    /\ SequenceOf("desire_triggers") = PyList(<<DesireEntry("X")>>)

\* C12: in the executive summary, top_pain_point, dominant_emotion and primary_desire
\* are the first element of the pain-point, emotional-pattern and desire-trigger
\* sequence, or "N/A" when the sequence is empty; the three totals are the lengths;
\* pain points [A, B], emotions [], desires [X] give A, N/A, X.
SummaryDerivation ==
    Assembled =>
        /\ \A i \in 1..Len(SummaryFields) : SummaryDerived(SummaryFields[i])
        /\ SummaryExample =>
               /\ ExecutiveSummary.o[K("top_pain_point")] = Str1("A")
               /\ ExecutiveSummary.o[K("dominant_emotion")] = Str1("N/A")
               /\ ExecutiveSummary.o[K("primary_desire")] = Str1("X")

WitnessSummaryExample ==
    /\ Assembled
    /\ SummaryExample
    /\ ExecutiveSummary.o[K("top_pain_point")] = Str1("A")
    /\ ExecutiveSummary.o[K("total_pain_points")] = PyInt(2)
    /\ ExecutiveSummary.o[K("total_emotional_patterns")] = PyInt(0)

RawDataSummary == message_map.o[K("raw_data_summary")]
SourceCounts == RawDataSummary.o[K("sources")]

\* the source tag of a record, "unknown" for a record without one
TagOf(rec) == IF HasKey(rec, "source") THEN rec.o[K("source")].s ELSE <<"unknown">>
Tagged(tag) == {i \in 1..Len(data) : TagOf(data[i]) = tag}

RECURSIVE SumCounts(_, _)
SumCounts(counts, keys) ==
    IF keys = <<>> THEN 0 ELSE counts.o[Head(keys)].n + SumCounts(counts, Tail(keys))

TagsAre(tags) == Len(data) = Len(tags) /\ \A i \in 1..Len(tags) : TagOf(data[i]) = <<tags[i]>>

\* C13: in the raw-data summary the count of each source tag is the number of
\* records carrying it, a record without a tag counts under "unknown", no tag has a
\* count of zero, the counts sum to total_items; the tags forum, forum, retail give
\* {forum: 2, retail: 1}.
RawDataCounts ==
    (Assembled /\ data # <<>>) =>
        /\ DOMAIN SourceCounts.o = {TagOf(data[i]) : i \in 1..Len(data)}
        /\ \A tag \in DOMAIN SourceCounts.o :
               SourceCounts.o[tag] = PyInt(Cardinality(Tagged(tag))) /\ Tagged(tag) # {}
        /\ RawDataSummary.o[K("total_items")] = PyInt(Len(data))
        /\ SumCounts(SourceCounts, SourceCounts.ks) = Len(data)
        /\ TagsAre(<<"forum", "forum", "retail">>) =>
               SourceCounts = Dict2("forum", PyInt(2), "retail", PyInt(1))

WitnessUnknownSource ==
    /\ Assembled
    /\ TagsAre(<<"forum", "unknown", "forum">>)
    /\ ~HasKey(data[2], "source")
    /\ SourceCounts = Dict2("forum", PyInt(2), "unknown", PyInt(1))

TimestampFields == <<"created_utc", "published_at", "date">>

\* the record has the timestamp field: it is there and it is not empty
HasStamp(rec, i) == HasKey(rec, TimestampFields[i]) /\ rec.o[K(TimestampFields[i])].s # <<>>
Stamped == {i \in 1..Len(data) : \E f \in 1..3 : HasStamp(data[i], f)}
\* the value the record contributes: that of the first timestamp field it has
Contributed(rec) ==
    rec.o[K(TimestampFields[CHOOSE f \in 1..3 : HasStamp(rec, f) /\ \A g \in 1..(f - 1) : ~HasStamp(rec, g)])]

\* x <= y in lexicographic order, for the timestamps of the records
LexLeq(x, y) == DateRank(x) <= DateRank(y)

DateRange == RawDataSummary.o[K("date_range")]

\* C14: every record contributes the value of the first timestamp field it has, in
\* the order created_utc, published_at, date; a record without a timestamp
\* contributes nothing; earliest and latest are the lexicographic minimum and
\* maximum of the contributed values, so earliest <= latest and both are values of
\* a record; both are "N/A" when no record has a timestamp.
DateRangeLaw ==
    (Assembled /\ data # <<>>) =>
        LET earliest == DateRange.o[K("earliest")]
            latest == DateRange.o[K("latest")] IN
        IF Stamped = {} THEN earliest = Str1("N/A") /\ latest = Str1("N/A")
        ELSE /\ \E i \in Stamped : earliest = Contributed(data[i])
             /\ \E i \in Stamped : latest = Contributed(data[i])
             /\ \A i \in Stamped : LexLeq(earliest, Contributed(data[i]))
             /\ \A i \in Stamped : LexLeq(Contributed(data[i]), latest)
             /\ LexLeq(earliest, latest)

\* a record with created_utc and an earlier date beside one with published_at only
WitnessDatePriority ==
    /\ Assembled
    /\ Len(data) = 3
    /\ Stamped = {1, 3}
    /\ HasStamp(data[1], 1) /\ HasStamp(data[1], 3)
    /\ ~HasStamp(data[3], 1) /\ HasStamp(data[3], 2)
    /\ LexLeq(data[1].o[K("date")], data[3].o[K("published_at")])
    /\ data[1].o[K("date")] # data[3].o[K("published_at")]
    /\ DateRange = Dict2("earliest", data[3].o[K("published_at")],
                         "latest", data[1].o[K("created_utc")])

\* the text field of a record, a comment or a reply when it is there and not empty
NonEmptyField(rec, field) ==
    IF rec.t = "dict" /\ HasKey(rec, field) /\ rec.o[K(field)].t = "str" /\ rec.o[K(field)].s # <<>>
    THEN <<rec.o[K(field)]>> ELSE <<>>

RECURSIVE NonEmptyNested(_)
NonEmptyNested(items) ==
    IF items = <<>> THEN <<>> ELSE NonEmptyField(Head(items), "text") \o NonEmptyNested(Tail(items))

NestedOf(rec, field) == IF HasKey(rec, field) THEN rec.o[K(field)].a ELSE <<>>

\* the non-empty text fields of the records in document order
RECURSIVE NonEmptyTexts(_)
NonEmptyTexts(recs) ==
    IF recs = <<>> THEN <<>>
    ELSE NonEmptyField(Head(recs), "text") \o NonEmptyField(Head(recs), "title")
             \o NonEmptyNested(NestedOf(Head(recs), "comments"))
             \o NonEmptyNested(NestedOf(Head(recs), "replies"))
             \o NonEmptyTexts(Tail(recs))

\* C15: the corpus handed to the pattern pass holds every non-empty title, body,
\* comment and reply text once, in document order (per record body, title, comments,
\* replies), and is no longer than the number of non-empty text fields: empty text
\* fields contribute no unit.
CorpusOnlyNonEmpty ==
    (pc = "pattern_pass" /\ call.pass = "pattern") =>
        /\ call.arg.a = NonEmptyTexts(data)
        /\ Len(call.arg.a) <= Len(NonEmptyTexts(data))

\* the files written in an encoding
Written(ext) == {k \in DOMAIN outputs : k[1] = ext}

\* the atom that follows the marker in the content, <<>> when the marker is not there
After(content, marker) ==
    IF \E i \in 1..(Len(content) - 1) : content[i] = marker
    THEN <<content[(CHOOSE i \in 1..(Len(content) - 1) : content[i] = marker) + 1]>>
    ELSE <<>>

\* the generation time an encoding shows
ShownGeneratedAt(k) ==
    CASE k[1] = "json" -> JsonLoads(outputs[k]).val.o[K("generated_at")].s
      [] k[1] = "md" -> After(outputs[k], "Generated: ")
      [] k[1] = "html" -> After(outputs[k], "<p><strong>Generated:</strong> ")

\* C16: rendering the same MessageMap twice with the same renderer gives the same
\* content; the content does not depend on the time of the save, and the generated_at
\* it shows is the value generate_message_map set.
RenderIdempotent ==
    /\ \A k1 \in DOMAIN outputs : \A k2 \in DOMAIN outputs :
           k1[1] = k2[1] => outputs[k1] = outputs[k2]
    /\ \A k \in DOMAIN outputs : ShownGeneratedAt(k) = message_map.o[K("generated_at")].s

\* each encoding saved at two different times, both later than the generation
WitnessRenderedTwice ==
    /\ message_map # None
    /\ \E k1 \in Written("md") : \E k2 \in Written("md") :
           /\ k1[2] # k2[2]
           /\ outputs[k1] = outputs[k2]
           /\ Stamp(k2[2]) # message_map.o[K("generated_at")]
    /\ Written("json") # {}

\* C17: save_as_json, save_as_markdown and save_as_html leave the MessageMap as
\* generate_message_map returned it, whatever the sequence of saves.
RenderFrame == [][message_map # None => message_map' = message_map]_vars

\* the three encodings saved, the MessageMap still the one assembled from the inputs
WitnessAllSaved ==
    /\ Written("json") # {} /\ Written("md") # {} /\ Written("html") # {}
    /\ clock > 0
    /\ analysis = RichAnalysis
    /\ message_map.o[K("pain_points")] = analysis.o[K("pain_points")]

\* the indices of the content that hold the marker at the start of a line
HeaderMarks(content, marker, lineStart) ==
    SelectSeq([i \in 1..Len(content) |-> i],
              LAMBDA i : /\ content[i] = marker
                         /\ i < Len(content)
                         /\ lineStart => (i = 1 \/ content[i - 1] = "\n"))

\* the section headers of a Markdown text (lines "## title") and of an HTML text (h2)
MdHeadersOf(content) ==
    LET at == HeaderMarks(content, "## ", TRUE) IN [j \in 1..Len(at) |-> content[at[j] + 1]]
HtmlHeadersOf(content) ==
    LET at == HeaderMarks(content, "<h2>", FALSE) IN [j \in 1..Len(at) |-> content[at[j] + 1]]

\* C18: the section headers of the Markdown encoding and of the HTML encoding of a
\* MessageMap are the same, in the same order.
HeadersAgree ==
    \A k1 \in Written("md") : \A k2 \in Written("html") :
        MdHeadersOf(outputs[k1]) = HtmlHeadersOf(outputs[k2])

\* summary, key insights, pain points, emotional patterns, awareness stages, ad-ready
\* hooks, body-copy frameworks, calls-to-action, objection handlers
NineHeaders ==
    <<"Executive Summary", "Key Insights", "Pain Points", "Emotional Patterns",
      "Customer Awareness Stages", "Ad-Ready Hooks", "Body Copy Frameworks",
      "Call to Action Suggestions", "Objection Handlers">>

\* every list of the MessageMap is the empty list, every map the empty map
AllSectionsEmpty ==
    \A i \in 1..Len(PassThroughFields) :
        message_map.o[K(PassThroughFields[i][1])] = PassThroughFields[i][4]

\* C19: the Markdown encoding holds the nine section headers in the fixed order,
\* each of them also when its section has no entry; a MessageMap whose lists and maps
\* are all empty is rendered, with the nine headers.
ProseSectionOrder ==
    /\ \A k \in Written("md") : MdHeadersOf(outputs[k]) = NineHeaders
    /\ (gen.op = "md" /\ AllSectionsEmpty) => (gen.phase = "returned" /\ Written("md") # {})

WitnessEmptySections ==
    /\ gen.op = "md"
    /\ AllSectionsEmpty
    /\ \E k \in Written("md") : /\ MdHeadersOf(outputs[k]) = NineHeaders
                                /\ After(outputs[k], "Emotional Patterns") = <<"\n">>

\* the keys of the MessageMap in the order generate_message_map builds them
MessageMapKeys ==
    <<"generated_at", "metadata", "executive_summary", "emotional_intelligence", "pain_points",
      "desire_triggers", "awareness_stages", "language_patterns", "ad_ready_hooks",
      "body_copy_frameworks", "headline_formulas", "call_to_actions", "objection_handlers",
      "key_insights", "raw_data_summary">>

\* the keys of the top-level object of a JSON text, in the order they are written:
\* the strings that open a line at the first level of indentation
TopLevelKeys(content) ==
    LET at == SelectSeq([i \in 1..Len(content) |-> i],
                        LAMBDA i : /\ i > 2 /\ i + 2 <= Len(content)
                                   /\ content[i] = Q /\ content[i - 1] = "  "
                                   /\ content[i - 2] = "\n") IN
    [j \in 1..Len(at) |-> content[at[j] + 1]]

\* C20: the JSON written by save_as_json holds every key of the MessageMap with its
\* value, in the order generate_message_map builds them; decoding it gives the
\* MessageMap.
StructuredLossless ==
    \A k \in Written("json") :
        /\ JsonLoads(outputs[k]).ok
        /\ JsonLoads(outputs[k]).val = message_map
        /\ TopLevelKeys(outputs[k]) = MessageMapKeys
        /\ message_map.ks = [i \in 1..Len(MessageMapKeys) |-> K(MessageMapKeys[i])]

WitnessStructuredSaved ==
    /\ analysis = RichAnalysis /\ ad_framework = RichFramework /\ data # <<>>
    /\ \E k \in Written("json") :
           /\ JsonLoads(outputs[k]).val = message_map
           /\ TopLevelKeys(outputs[k]) = MessageMapKeys

\* the three variants of an analysis handed to the ad-framework pass
Structured(a) == a.t = "dict" /\ K("raw_analysis") \notin DOMAIN a.o /\ K("error") \notin DOMAIN a.o
RawVariant(a) == a.t = "dict" /\ DOMAIN a.o = {K("raw_analysis")}
ErrorVariant(a) == a.t = "dict" /\ DOMAIN a.o = {K("error")}
RawFramework(f) == f.t = "dict" /\ DOMAIN f.o = {K("raw_framework")}

\* C21: for a Structured, Raw or Error analysis, generate_ad_copy_framework
\* returns the parsed JSON value when the response text parses,
\* {raw_framework: text} when it does not, {error: message} when the client
\* call fails, and never raises.
FrameworkContract ==
    (Ended("framework") /\ (Structured(call.arg) \/ RawVariant(call.arg) \/ ErrorVariant(call.arg))) =>
        /\ call.phase = "returned"
        /\ GotFailure => result = Dict1("error", PyStr(response.msg))
        /\ (GotText /\ JsonLoads(response.content[1]).ok) =>
               result = JsonLoads(response.content[1]).val
        /\ (GotText /\ ~JsonLoads(response.content[1]).ok) =>
               result = Dict1("raw_framework", PyStr(response.content[1]))

WitnessFrameworkDegrade ==
    /\ Ended("framework")
    /\ RawVariant(call.arg)
    /\ GotText
    /\ response.content[1] = NotJson
    /\ result = Dict1("raw_framework", PyStr(NotJson))

\* the items whose texts were sent, by position in the prompt's text list
SentItems == CategorizeTexts(call.arg.a)

\* the items the assignments to the stage name, in the order of the assignments
AlignedItems(stage) ==
    LET sel == SelectSeq(ParsedAssignments, LAMBDA e : e.o[K("stage")].s = stage) IN
    [i \in 1..Len(sel) |-> SentItems[sel[i].o[K("text_index")].n + 1]]

AllAssignmentsValid ==
    \A i \in 1..Len(ParsedAssignments) :
        ValidIndex(ParsedAssignments[i], Len(SentItems)) /\ ValidStage(ParsedAssignments[i])

\* C22: when every assignment names a sent position and one of the five
\* stages, each bucket holds the source items whose texts were sent at the
\* assigned positions, also when some items lack the text field or more than
\* 50 items are supplied.
IndexAligned ==
    (Ended("categorize") /\ call.phase = "returned" /\ result # EmptyDict /\ AllAssignmentsValid) =>
        \A stage \in FiveKeys : result.o[stage].a = AlignedItems(stage)

\* the units of a record's own fields: the body, and the title when it differs from the body
OwnUnits(rec) ==
    LET body == NonEmptyField(rec, "text")
        title == NonEmptyField(rec, "title") IN
    body \o (IF title = body THEN <<>> ELSE title)

\* C23: a record's title is a text unit only if it is non-empty and differs
\* from the record's body; a record whose title equals its body contributes
\* that text once.
TitleDistinctFromBody ==
    (pc = "pattern_pass" /\ call.pass = "pattern" /\ Len(data) = 1
        /\ ~HasKey(data[1], "comments") /\ ~HasKey(data[1], "replies")) =>
            call.arg.a = OwnUnits(data[1])

\* str.lower() on the atoms that carry upper-case letters
Lower(a) == CASE a = "Major" -> "major" [] a = "HIGH" -> "high" [] OTHER -> a

\* the class names that follow "badge badge-" in the content, in order
BadgeClasses(content) ==
    LET idx == SelectSeq([i \in 1..(Len(content) - 1) |-> i],
                         LAMBDA i : content[i] = "<span class=badge badge-") IN
    [j \in 1..Len(idx) |-> content[idx[j] + 1]]

\* the pain points of the MessageMap when they are a list of entries with a severity
SeverityList ==
    LET pp == message_map.o[K("pain_points")] IN
    IF pp.t = "list" /\ \A j \in 1..Len(pp.a) :
           pp.a[j].t = "dict" /\ HasKey(pp.a[j], "severity")
               /\ pp.a[j].o[K("severity")].t = "str" /\ Len(pp.a[j].o[K("severity")].s) = 1
    THEN [j \in 1..Len(pp.a) |-> pp.a[j].o[K("severity")].s[1]]
    ELSE <<>>

\* C24: in the HTML encoding the badge class of every pain point is the value
\* of its severity field, lower-cased: severity "Major" gives badge-major.
BadgeLowerCased ==
    \A k \in Written("html") :
        SeverityList # <<>> =>
            BadgeClasses(outputs[k]) = [j \in 1..Len(SeverityList) |-> Lower(SeverityList[j])]

\* the encodings a value of --format asks for
Requested(fmt) == IF fmt = "all" THEN {"json", "markdown", "html"} ELSE {fmt}

\* C25: for each value of --format (json, markdown, html, all) a completed run
\* has written one file per requested encoding and no other; "all" writes the
\* JSON, the Markdown and the HTML file.
ArtifactsPerFormat ==
    (pc = "done" /\ args.format # "") => files = Requested(args.format)

\* the passes of the requests sent so far, in order
PassesRequested == [i \in 1..Len(req_log) |-> req_log[i].pass]

\* the run has gone past the call of the ad-framework pass
PastFrameworkCall ==
    \/ pc \in {"framework_pass", "save", "done"}
    \/ pc = "exited" /\ exit_status = "exception"

RECURSIVE Mentions(_, _)
Mentions(v, text) ==
    CASE v.t = "str" -> v.s = text
      [] v.t = "list" -> \E i \in 1..Len(v.a) : Mentions(v.a[i], text)
      [] v.t = "dict" -> \E k \in DOMAIN v.o : Mentions(v.o[k], text)
      [] OTHER -> FALSE

\* the text a Raw or Error variant carries
CarriedText(v) ==
    IF RawVariant(v) \/ RawFramework(v) \/ ErrorVariant(v) THEN v.o[CHOOSE k \in DOMAIN v.o : TRUE].s ELSE <<>>

\* the fields of the MessageMap that come from the source are at their defaults
FieldsEmpty(from) ==
    \A i \in 1..Len(PassThroughFields) :
        PassThroughFields[i][2] = from =>
            message_map.o[K(PassThroughFields[i][1])] = PassThroughFields[i][4]

SummaryNA ==
    message_map.o[K("executive_summary")] =
        DictOf(<< <<"top_pain_point", Str1("N/A")>>, <<"dominant_emotion", Str1("N/A")>>,
                  <<"primary_desire", Str1("N/A")>>, <<"total_emotional_patterns", PyInt(0)>>,
                  <<"total_pain_points", PyInt(0)>>, <<"total_desire_triggers", PyInt(0)>> >>)

\* C27: for a Raw or an Error analysis the MessageMap is that of an empty
\* analysis: the analysis fields empty, the summary N/A, N/A, N/A with totals
\* 0, and the raw text or error message in no field; likewise the framework
\* fields for a Raw or an Error ad framework.
DegradedInputsGiveEmptyMap ==
    /\ (Generated /\ (RawVariant(analysis) \/ ErrorVariant(analysis))) =>
           /\ gen.phase = "returned"
           /\ FieldsEmpty("analysis")
           /\ SummaryNA
           /\ ~Mentions(message_map, CarriedText(analysis))
    /\ (Generated /\ analysis.t = "dict"
            /\ (RawFramework(ad_framework) \/ ErrorVariant(ad_framework))) =>
           (gen.phase = "returned" =>
               /\ FieldsEmpty("framework")
               /\ ~Mentions(message_map, CarriedText(ad_framework)))

WitnessErrorAnalysisAssembled ==
    /\ Assembled
    /\ ErrorVariant(analysis)
    /\ CarriedText(analysis) = <<"timeout">>
    /\ SummaryNA
    /\ message_map.o[K("pain_points")] = EmptyList
    /\ message_map.o[K("ad_ready_hooks")] # EmptyDict

\* what can be wrong with one assignment entry
HasBoth(e) == e.t = "dict" /\ HasKey(e, "text_index") /\ HasKey(e, "stage")
MissingField(e) == e.t = "dict" /\ ~HasBoth(e)
NonIntegerIndex(e) == HasBoth(e) /\ e.o[K("text_index")].t \notin {"int", "bool"}
NonNumericIndex(e) == HasBoth(e) /\ e.o[K("text_index")].t \notin {"int", "bool", "float"}
\* a fractional index that is not below the number of input items
FractionPastEnd(e) ==
    /\ HasBoth(e)
    /\ e.o[K("text_index")].t = "float"
    /\ FloatTokTwice[e.o[K("text_index")].tok] >= 2 * Len(call.arg.a)
\* an integer index of an input item, with one of the five stages
GoodEntry(e) == ValidIndex(e, Len(call.arg.a)) /\ ValidStage(e)

CallFailedOrNotJson == GotFailure \/ (GotText /\ ~JsonLoads(response.content[1]).ok)
SomeEntry(P(_)) == \E i \in 1..Len(ParsedAssignments) : P(ParsedAssignments[i])
EveryEntry(P(_)) == \A i \in 1..Len(ParsedAssignments) : P(ParsedAssignments[i])

\* C28 as stated: categorize_by_awareness never raises, and returns {} when
\* the call fails, the response is not JSON, or any entry lacks text_index or
\* stage or has a non-integer index.
AllOrNothing ==
    Ended("categorize") =>
        /\ call.phase = "returned"
        /\ (CallFailedOrNotJson \/ SomeEntry(MissingField) \/ SomeEntry(NonIntegerIndex)) =>
               result = EmptyDict

\* C28, amended: categorize_by_awareness never raises and returns {} or the
\* five buckets; it returns {} when the call fails, the response is not JSON,
\* or any entry lacks text_index or stage or has an index that is not a
\* number; a fractional index that is not below the number of items is
\* skipped, and the valid assignments beside it are kept.
AllOrNothingAmended ==
    Ended("categorize") =>
        /\ call.phase = "returned"
        /\ result = EmptyDict \/ DOMAIN result.o = FiveKeys
        /\ (CallFailedOrNotJson \/ SomeEntry(MissingField) \/ SomeEntry(NonNumericIndex)) =>
               result = EmptyDict
        /\ (ParsedAssignments # <<>>
                /\ EveryEntry(LAMBDA e : GoodEntry(e) \/ (FractionPastEnd(e) /\ StrStage(e)))) =>
               /\ DOMAIN result.o = FiveKeys
               /\ TotalBucketed(result, FiveKeys) = CountOf(ParsedAssignments, GoodEntry)

\* a valid assignment was bucketed before an entry without a stage ended the loop
WitnessBucketsDiscarded ==
    /\ Ended("categorize")
    /\ Len(ParsedAssignments) = 2
    /\ GoodEntry(ParsedAssignments[1])
    /\ MissingField(ParsedAssignments[2])
    /\ result = EmptyDict

\* no item handed to categorize_by_awareness has the text field
NoItemHasText == \A i \in 1..Len(call.arg.a) : ~HasKey(call.arg.a[i], "text")

\* C29: when no input item has the text field, the empty list included,
\* categorize_by_awareness returns {} and sends no request.
NoTextNoRequest ==
    call.pass = "categorize" =>
        IF NoItemHasText
        THEN call.phase = "returned" /\ result = EmptyDict /\ req_log = <<>> /\ in_flight = <<>>
        ELSE Len(req_log) = 1

WitnessItemsWithoutText ==
    /\ call.pass = "categorize"
    /\ Len(call.arg.a) = 2
    /\ NoItemHasText
    /\ result = EmptyDict
    /\ req_log = <<>>

\* the sources in the order scrape_data takes them
SourceOrder == <<"reddit", "amazon", "youtube">>
SourceRank(name) == CHOOSE i \in 1..3 : SourceOrder[i] = name

\* the connector calls the console reports, and those that returned records
Attempts == SelectSeq(console, LAMBDA m : m.ended # "skipped")
Skipped == {console[i].source : i \in {j \in 1..Len(console) : console[j].ended = "skipped"}}
Enabled == {name \in {"reddit", "amazon", "youtube"} : args[name]}
ScrapeDone == pc \notin {"validate_sources", "validate_keys", "scrape"} /\ api_keys.anthropic
             /\ (args.reddit \/ args.amazon \/ args.youtube \/ Skipped # {})
SourceTag(rec) == rec.o[K("source")].s[1]
RecordsOf(name) == SelectSeq(data, LAMBDA rec : SourceTag(rec) = name)
CountReported(name) ==
    IF \E i \in 1..Len(Attempts) : Attempts[i].source = name
    THEN Attempts[CHOOSE i \in 1..Len(Attempts) : Attempts[i].source = name].n ELSE 0

\* C30: a connector that raises, or a source asked for without its
\* credentials, neither aborts the run nor discards the records collected:
\* every enabled source is attempted once, in the order Reddit, Amazon,
\* YouTube, and the collected list is the records of the successful sources
\* in that order.
SourceIsolation ==
    ScrapeDone =>
        /\ {Attempts[i].source : i \in 1..Len(Attempts)} = Enabled
        /\ \A i, j \in 1..Len(Attempts) :
               i < j => SourceRank(Attempts[i].source) < SourceRank(Attempts[j].source)
        /\ Skipped \cap Enabled = {}
        /\ \A name \in {"reddit", "amazon", "youtube"} : Len(RecordsOf(name)) = CountReported(name)
        /\ \A i, j \in 1..Len(data) :
               i < j => SourceRank(SourceTag(data[i])) <= SourceRank(SourceTag(data[j]))
        /\ data # <<>> => (pc # "exited" \/ analysis # None)
        /\ analysis = None => exit_status # "exception"

\* Reddit returned records, Amazon raised, YouTube was still called and returned a record
WitnessFailureBetweenSources ==
    /\ pc = "analyze"
    /\ [i \in 1..Len(Attempts) |-> Attempts[i].ended] = <<"ok", "failed", "ok">>
    /\ data = <<RedditPost, RedditLink, YouTubeComment>>

\* Reddit was asked for without its credentials, Amazon was still scraped
WitnessMissingCredentials ==
    /\ pc = "analyze"
    /\ "reddit" \in Skipped
    /\ data = <<AmazonReview>>

====
